---------------------------- MODULE Spec2Model ----------------------------
(***************************************************************************)
(* Mailbox synchronisation engine of gmail-client-ai: GmailSyncService     *)
(* (syncMailbox, syncBatch, syncThreadsBulk, syncThreads, the job row      *)
(* helpers) over a record store and an external paginated mailbox API.     *)
(***************************************************************************)
EXTENDS Integers, Sequences, FiniteSets, TLC

VARIABLES
    db,        \* record store content tables: thread, message, attachment, label rows
    syncJob,   \* record store: the SyncJob rows of the owner, in creation order
    user,      \* record store: the owner's User row (syncStatus, lastSyncedAt)
    mailbox,   \* the external mailbox: listing slots hidden from results, then threads
    inv,       \* the running invocations of syncBatch / syncMailbox and their locals
    returns,   \* handleSync: the results its syncBatch calls returned, in order
    used,      \* invocations started and faults injected so far
    bulk,      \* driver of the batch pipeline runs: last input and row counts
    progressCalls, \* the updateSyncProgress calls made in SpecProgress, in order
    ui         \* the Sidebar component: its state and its handleSync loops

vars == <<db, syncJob, user, mailbox, inv, returns, used, bulk, progressCalls, ui>>

-----------------------------------------------------------------------------
(* Bounds of the model *)

MaxThreadId == 6     \* thread ids 1..MaxThreadId feed the pipeline runs
MaxItems == 3        \* longest thread-item list handed to one pipeline run
MaxRuns == 2         \* pipeline runs with a fresh input in one behaviour

-----------------------------------------------------------------------------
(* The external mailbox: what threads.get returns for a thread id.         *)
(* A message carries id, threadId, optional payload.headers and the        *)
(* attachment parts extractEmailContent finds; an attachment's download    *)
(* either carries data or not. mailbox.malformed says whether the mailbox  *)
(* holds a thread whose only message comes without payload.headers.        *)

\* labelIds of the messages of thread t; "Label_9" is a label labels.list does
\* not report. Once mailbox.relabelled, the owner has read and starred the
\* messages in the mailbox.
LabelIds(t) ==
    LET labelIds == CASE t % 3 = 1 -> {"INBOX", "UNREAD"}
                      [] t % 3 = 2 -> {"STARRED", "Label_9"}
                      [] OTHER     -> {"INBOX"}
    IN  IF mailbox.relabelled THEN (labelIds \ {"UNREAD"}) \cup {"STARRED"} ELSE labelIds

\* The Subject header of message k of thread t: the only message of a thread
\* of shape 1 and the last message of a thread of shape 5 carry none.
Subject(t, k) ==
    CASE t % 6 = 1 -> ""
      [] t % 6 = 5 -> IF k = 1 THEN "first" ELSE ""
      [] OTHER     -> IF k = 1 THEN "first" ELSE "last"

Message(t, k, headers, atts) ==
    [id |-> 10 * t + k, threadId |-> t, hasHeaders |-> headers, attachments |-> atts,
     labelIds |-> LabelIds(t), subject |-> Subject(t, k)]

AttachmentPart(t, k, j, data) ==
    [attachmentId |-> 100 * t + 10 * k + j, hasData |-> data]

MessagesOf(t) ==
    CASE t % 6 = 1 -> << Message(t, 1, TRUE, <<>>) >>
      [] t % 6 = 2 -> << Message(t, 1, TRUE, << AttachmentPart(t, 1, 1, TRUE) >>) >>
      [] t % 6 = 3 -> << >>
      [] t % 6 = 4 -> << Message(t, 1, FALSE, <<>>),
                         Message(t, 2, TRUE, << AttachmentPart(t, 2, 1, TRUE) >>) >>
      [] t % 6 = 0 -> << Message(t, 1, ~mailbox.malformed, <<>>) >>
      [] OTHER     -> << Message(t, 1, TRUE, << AttachmentPart(t, 1, 1, FALSE),
                                                AttachmentPart(t, 1, 2, TRUE) >>),
                         Message(t, 2, TRUE, <<>>) >>

-----------------------------------------------------------------------------
(* Record store operations *)

EmptyDb ==
    [thread |-> <<>>, message |-> <<>>, attachment |-> <<>>, label |-> {},
     labelThread |-> {}]

Min(a, b) == IF a < b THEN a ELSE b
Max(a, b) == IF a > b THEN a ELSE b

RowsWhere(tbl, Test(_)) == {i \in 1..Len(tbl) : Test(tbl[i])}

\* getHeaderValue(headers, "Subject") || ...: the empty string is falsy.
SubjectOf(msgs) ==
    IF msgs[Len(msgs)].subject # "" THEN msgs[Len(msgs)].subject
    ELSE IF msgs[1].subject # "" THEN msgs[1].subject
    ELSE "(no subject)"

\* The thread data derived from the messages msgs of thread t.
ThreadDataOf(t, msgs, labelIds) ==
    [gmailThreadId |-> t,
     subject |-> SubjectOf(msgs),
     unread |-> "UNREAD" \in labelIds,
     starred |-> "STARRED" \in labelIds,
     important |-> "IMPORTANT" \in labelIds,
     messageCount |-> Len(msgs)]

\* The thread data of thread t, which has messages; the flags come from the
\* labelIds of the last message.
ThreadData(t) ==
    CHOOSE data \in {ThreadDataOf(t, msgs, msgs[Len(msgs)].labelIds) :
                        msgs \in {MessagesOf(t)}} : TRUE

\* A row of id id of the Thread table holding data.
ThreadRow(id, data) ==
    [id |-> id, gmailThreadId |-> data.gmailThreadId, subject |-> data.subject,
     unread |-> data.unread, starred |-> data.starred, important |-> data.important,
     messageCount |-> data.messageCount]

\* db.thread.upsert({where: {userId_gmailThreadId}, update, create}): the
\* result is the table and the id of the row written.
ThreadUpsertAlwaysCreates(tbl, t) ==
    [tbl |-> Append(tbl, ThreadRow(Len(tbl) + 1, ThreadData(t))),
     id |-> Len(tbl) + 1]

ThreadUpsert(tbl, t) ==
    LET hit == RowsWhere(tbl, LAMBDA r : r.gmailThreadId = t)
    IN  IF hit # {}
        THEN LET i == CHOOSE i \in hit : TRUE
             IN  [tbl |-> [tbl EXCEPT ![i] = ThreadRow(tbl[i].id, ThreadData(t))],
                  id |-> tbl[i].id]
        ELSE [tbl |-> Append(tbl, ThreadRow(Len(tbl) + 1, ThreadData(t))),
              id |-> Len(tbl) + 1]

\* The loop over threadsToCreate: every thread upserted in order, the rows'
\* ids collected in createdThreads.
RECURSIVE UpsertThreads(_, _, _)
UpsertThreads(tbl, ts, created) ==
    IF ts = <<>> THEN [tbl |-> tbl, created |-> created]
    ELSE LET r == ThreadUpsert(tbl, Head(ts))
         IN  UpsertThreads(r.tbl, Tail(ts), Append(created, r.id))

\* db.message.createMany({data, skipDuplicates: true}): a row whose
\* gmailMessageId is already stored is skipped.
RECURSIVE MessageCreateMany(_, _)
MessageCreateMany(tbl, data) ==
    IF data = <<>> THEN tbl
    ELSE LET m == Head(data)
             known == RowsWhere(tbl, LAMBDA r : r.gmailMessageId = m.gmailMessageId) # {}
         IN  MessageCreateMany(
                 IF known THEN tbl
                 ELSE Append(tbl, [id |-> Len(tbl) + 1,
                                   gmailMessageId |-> m.gmailMessageId,
                                   gmailThreadId |-> m.gmailThreadId,
                                   threadId |-> m.threadId,
                                   labelIds |-> m.labelIds]),
                 Tail(data))

\* syncAttachment: existence check, download, create.
SyncAttachment(tbl, messageId, part) ==
    IF RowsWhere(tbl, LAMBDA r : r.messageId = messageId
                                 /\ r.gmailAttachmentId = part.attachmentId) # {}
    THEN tbl
    ELSE IF ~part.hasData THEN tbl
    ELSE Append(tbl, [messageId |-> messageId, gmailAttachmentId |-> part.attachmentId])

-----------------------------------------------------------------------------
(* syncThreadsBulk *)

ValidMessage(m) == m.hasHeaders

RECURSIVE MessagesToCreate(_)
MessagesToCreate(ts) ==
    IF ts = <<>> THEN <<>>
    ELSE SelectSeq(MessagesOf(Head(ts)), ValidMessage) \o MessagesToCreate(Tail(ts))

RECURSIVE AttachmentsToProcess(_)
AttachmentsToProcess(ms) ==
    IF ms = <<>> THEN <<>>
    ELSE [j \in 1..Len(Head(ms).attachments) |->
             [gmailMessageId |-> Head(ms).id, attachment |-> Head(ms).attachments[j]]]
         \o AttachmentsToProcess(Tail(ms))

\* Every fetched thread paired with the first row written.
ThreadIdMapToFirstRow(validThreads, createdThreads) ==
    [t \in {validThreads[i] : i \in 1..Min(Len(validThreads), Len(createdThreads))} |->
        createdThreads[1]]

\* threadIdMap pairs validThreads[i] with createdThreads[i].
ThreadIdMap(validThreads, createdThreads) ==
    LET n == Min(Len(validThreads), Len(createdThreads))
    IN  [t \in {validThreads[i] : i \in 1..n} |->
            createdThreads[CHOOSE i \in 1..n : validThreads[i] = t]]

Undefined == 0

MessagesWithThreadIds(ms, idMap) ==
    [k \in 1..Len(ms) |->
        [gmailMessageId |-> ms[k].id, gmailThreadId |-> ms[k].threadId,
         labelIds |-> ms[k].labelIds,
         threadId |-> IF ms[k].threadId \in DOMAIN idMap
                      THEN idMap[ms[k].threadId] ELSE Undefined]]

\* The try/catch around createMany: a row without threadId makes the whole call
\* throw, the catch continues with nothing inserted.
BulkInsertMessagesUnchecked(tbl, data) == MessageCreateMany(tbl, data)

BulkInsertMessages(tbl, data) ==
    IF \E k \in 1..Len(data) : data[k].threadId = Undefined THEN tbl
    ELSE MessageCreateMany(tbl, data)

RECURSIVE ProcessAttachments(_, _, _)
ProcessAttachments(tbl, messages, todo) ==
    IF todo = <<>> THEN tbl
    ELSE LET item == Head(todo)
             hit == RowsWhere(messages, LAMBDA r : r.gmailMessageId = item.gmailMessageId)
         IN  ProcessAttachments(
                 IF hit = {} THEN tbl
                 ELSE SyncAttachment(tbl, messages[CHOOSE i \in hit : TRUE].id, item.attachment),
                 messages, Tail(todo))

\* labelIds of the last message of thread t.
LastLabelIds(t) == MessagesOf(t)[Len(MessagesOf(t))].labelIds

\* db.labelThread.deleteMany({where: {threadId: {in: threadIds}}})
LabelThreadDeleteMany(tbl, threadIds) == {r \in tbl : r.threadId \notin threadIds}

\* The rows for one thread: its label ids that db.label.findMany knows.
LabelThreadRows(d, threadId, labelIds) ==
    {[labelId |-> l, threadId |-> threadId] : l \in labelIds \cap d.label}

\* syncThreadLabelsBulk pairs validThreads[i] with createdThreads[i].
ThreadLabelData(validThreads, createdThreads) ==
    {[threadId |-> createdThreads[i], labelIds |-> LastLabelIds(validThreads[i])] :
        i \in {k \in 1..Min(Len(validThreads), Len(createdThreads)) :
                  Len(MessagesOf(validThreads[k])) > 0}}

\* Steps 2 to 5 of syncThreadLabelsBulk on the store as the call finds it.
RebuildLabelThreads(store, threadLabelData) ==
    [store EXCEPT !.labelThread =
        LabelThreadDeleteMany(@, {item.threadId : item \in threadLabelData})
        \cup UNION {LabelThreadRows(store, item.threadId, item.labelIds) :
                       item \in threadLabelData}]

SyncThreadLabelsBulk(d, validThreads, createdThreads) ==
    CHOOSE rebuilt \in
        {IF threadLabelData = {} THEN store
         ELSE RebuildLabelThreads(store, threadLabelData) :
            store \in {d},
            threadLabelData \in {ThreadLabelData(validThreads, createdThreads)}} : TRUE

\* The threads whose threads.get answered.
ValidThreads(threadItems, failed) == SelectSeq(threadItems, LAMBDA t : t \notin failed)

\* The threads the prepare loop does not skip.
ThreadsToCreate(validThreads) == SelectSeq(validThreads, LAMBDA t : Len(MessagesOf(t)) > 0)

\* The prepare loop reads the Subject of the last message with getHeaderValue,
\* which throws a TypeError on a message without payload.headers.
SubjectThrows(msgs) ==
    \/ ~msgs[Len(msgs)].hasHeaders
    \/ msgs[Len(msgs)].subject = "" /\ ~msgs[1].hasHeaders

PrepareThrows(validThreads) ==
    \E k \in 1..Len(validThreads) :
        LET msgs == MessagesOf(validThreads[k])
        IN  msgs # <<>> /\ SubjectThrows(msgs)

\* Step 3 of syncThreadsBulk, first part: the thread upserts.
BulkThreads(d, validThreads) ==
    LET up == UpsertThreads(d.thread, ThreadsToCreate(validThreads), <<>>)
    IN  [db |-> [d EXCEPT !.thread = up.tbl], createdThreads |-> up.created]

\* Step 3, second part: the message rows.
BulkMessages(d, validThreads, createdThreads) ==
    [d EXCEPT !.message =
        BulkInsertMessages(@, MessagesWithThreadIds(
                                  MessagesToCreate(ThreadsToCreate(validThreads)),
                                  ThreadIdMap(validThreads, createdThreads)))]

\* Step 4: the attachments of the prepared messages.
BulkAttachments(d, validThreads) ==
    [d EXCEPT !.attachment =
        ProcessAttachments(@, d.message,
                           AttachmentsToProcess(MessagesToCreate(ThreadsToCreate(validThreads))))]

\* threadItems: the listed thread ids; failed: those whose threads.get throws.
\* threw: the prepare loop threw, nothing was written.
SyncThreadsBulk(d, threadItems, failed) ==
    LET validThreads == ValidThreads(threadItems, failed)
        \* steps 3 to 5 after the thread upserts gave threads
        Persisted(threads) ==
            LET messages == BulkMessages(threads.db, validThreads, threads.createdThreads)
                attachments == BulkAttachments(messages, validThreads)
            IN  SyncThreadLabelsBulk(attachments, validThreads, threads.createdThreads)
    IN  IF PrepareThrows(validThreads)
        THEN [db |-> d, processedCount |-> 0, threw |-> TRUE]
        ELSE [db |-> CHOOSE persisted \in
                        {Persisted(threads) : threads \in {BulkThreads(d, validThreads)}} :
                        TRUE,
              processedCount |-> Len(validThreads), threw |-> FALSE]

Counts(d) == <<Len(d.thread), Len(d.message), Len(d.attachment)>>

-----------------------------------------------------------------------------
(* The mailbox API: threads.list, labels.list *)

Null == 0            \* null / undefined: no page token, no job id

\* The listing walks mailbox.hidden slots that are filtered from the results
\* (spam and trash, includeSpamTrash being off) and then the threads
\* 1..mailbox.threads; a page token is the number of slots walked so far.
Slots == mailbox.hidden + mailbox.threads

threads_list(pageToken, maxResults, estimate) ==
    LET last == Min(pageToken + maxResults, Slots)
        first == Max(pageToken, mailbox.hidden) + 1
    IN  [threads |-> [k \in 1..Max(last - first + 1, 0) |-> first + k - 1 - mailbox.hidden],
         nextPageToken |-> IF pageToken + maxResults < Slots
                           THEN pageToken + maxResults ELSE Null,
         resultSizeEstimate |-> estimate]

MailboxLabels == {"INBOX", "UNREAD", "STARRED"}

-----------------------------------------------------------------------------
(* Program constants *)

SYNC_BATCH_SIZE == 20     \* BATCH_SIZE local to syncBatch
BATCH_SIZE == 50          \* threads synced concurrently by syncThreads
THREADS_PER_PAGE == 100   \* page size of syncThreads
maxAttempts == 100        \* handleSync's cap on syncBatch calls

-----------------------------------------------------------------------------
(* The SyncJob row and its helpers *)

NewJob(id, type) ==
    [id |-> id, status |-> "RUNNING", type |-> type, processedItems |-> 0,
     totalItems |-> 0, progress |-> 0, nextPageToken |-> Null, error |-> "",
     completedAt |-> FALSE]

\* Math.round of num / den, for num >= 0 and den > 0.
Round(num, den) == (2 * num + den) \div (2 * den)

\* The progress syncBatch stores and returns.
BatchProgress(processed, total) ==
    IF total > 0 THEN Round(processed * 100, total) ELSE 0

ProgressOfUnclamped(processedItems, totalItems) ==
    IF totalItems > 0 THEN Round(processedItems * 100, totalItems) ELSE 0

ProgressOf(processedItems, totalItems) ==
    LET actualTotal == Max(totalItems, processedItems)
    IN  IF actualTotal > 0 THEN Min(Round(processedItems * 100, actualTotal), 100) ELSE 0

\* updateSyncProgress(processedItems, totalItems) on job id.
UpdateSyncProgress(jobs, id, processedItems, totalItems) ==
    IF id = Null THEN jobs
    ELSE [jobs EXCEPT ![id].processedItems = processedItems,
                      ![id].totalItems = Max(totalItems, processedItems),
                      ![id].progress = ProgressOf(processedItems, totalItems)]

\* completeSyncJob(status, error) on job id; error "" stands for no argument.
CompleteSyncJob(jobs, id, status, error) ==
    IF id = Null THEN jobs
    ELSE [jobs EXCEPT ![id].status = status,
                      ![id].completedAt = TRUE,
                      ![id].progress = IF status = "COMPLETED" THEN 100 ELSE @,
                      ![id].error = IF error = "" THEN @ ELSE error]

\* findFirst({where: {userId, status: "RUNNING"}, orderBy: {startedAt: "desc"}})
RunningJobs == {j \in 1..Len(syncJob) : syncJob[j].status = "RUNNING"}
FindFirstRunning ==
    IF RunningJobs = {} THEN Null
    ELSE CHOOSE j \in RunningJobs : \A k \in RunningJobs : k <= j

-----------------------------------------------------------------------------
(* Invocations *)

MaxCalls == 2        \* invocations started in one behaviour of Spec
MaxFaults == 1       \* errors injected in one behaviour of Spec
EstimateSkew == 3    \* how far resultSizeEstimate may exceed the thread count

Inv == {1, 2}

NoPage == [items |-> <<>>, nextPageToken |-> Null, resultSizeEstimate |-> 0]
NoResult == [completed |-> FALSE, progress |-> 0, processedItems |-> 0, totalItems |-> 0]

IdleInv ==
    [kind |-> "idle", pc |-> "idle", syncJobId |-> Null, syncJob |-> NewJob(Null, "FULL"),
     threads |-> NoPage, processedInBatch |-> 0, pageToken |-> Null, totalThreads |-> 0,
     processedThreads |-> 0, i |-> 0, expired |-> FALSE, error |-> "",
     outcome |-> "none", result |-> NoResult, job |-> Null, cursor |-> Null,
     next |-> Null, validThreads |-> <<>>, createdThreads |-> <<>>]

Estimates == {mailbox.threads, mailbox.threads + EstimateSkew}

\* The end of an invocation: its locals are gone. What is left is what the caller
\* sees (the value returned or the error thrown) and a record of the run: the job
\* it worked on, whether the deadline ended it, the cursor it held (syncBatch: the
\* one it resumed from; syncThreads: its pageToken) and the nextPageToken of the
\* last page the API gave it.
Ended(i, outcome, result, error, job) ==
    [IdleInv EXCEPT !.kind = inv[i].kind, !.pc = "done", !.outcome = outcome,
                    !.result = result, !.error = error, !.job = job,
                    !.expired = inv[i].expired,
                    !.cursor = IF inv[i].kind = "syncBatch"
                               THEN inv[i].syncJob.nextPageToken ELSE inv[i].pageToken,
                    !.next = inv[i].threads.nextPageToken]

Return(i, result) ==
    inv' = [inv EXCEPT ![i] = Ended(i, "returned", result, "", inv[i].syncJobId)]

Throw(i, error, job) ==
    inv' = [inv EXCEPT ![i] = Ended(i, "threw", NoResult, error, job)]

\* syncBatch is entered on a fresh service (GmailSyncService.create) and looks
\* for the owner's RUNNING job.
BatchFindFirst(i) ==
    /\ inv[i].pc \in {"idle", "done"}
    /\ used' = [used EXCEPT !.calls = @ + 1]
    /\ LET j == FindFirstRunning
           entered == [IdleInv EXCEPT !.kind = "syncBatch"]
       IN  inv' = IF j = Null
                  THEN [inv EXCEPT ![i] = [entered EXCEPT !.pc = "create"]]
                  ELSE [inv EXCEPT ![i] = [entered EXCEPT !.pc = "list", !.syncJob = syncJob[j],
                                                          !.syncJobId = j]]
    /\ UNCHANGED <<db, syncJob, user, mailbox, returns, bulk,
                 progressCalls, ui>>

\* syncBatch: no RUNNING job was found, create one.
BatchCreate(i) ==
    /\ inv[i].kind = "syncBatch" /\ inv[i].pc = "create"
    /\ LET job == NewJob(Len(syncJob) + 1, "FULL")
       IN  /\ syncJob' = Append(syncJob, job)
           /\ inv' = [inv EXCEPT ![i].pc = "syncLabels", ![i].syncJob = job]
    /\ UNCHANGED <<db, user, mailbox, returns, used, bulk,
                 progressCalls, ui>>

\* syncLabels: every label of the mailbox upserted by (owner, external id).
SyncLabels(d) == [d EXCEPT !.label = @ \cup MailboxLabels]

BatchSyncLabels(i) ==
    /\ inv[i].kind = "syncBatch" /\ inv[i].pc = "syncLabels"
    /\ db' = SyncLabels(db)
    /\ inv' = [inv EXCEPT ![i].pc = "list", ![i].syncJobId = inv[i].syncJob.id]
    /\ UNCHANGED <<syncJob, user, mailbox, returns, used, bulk,
                 progressCalls, ui>>

\* getNextThreadBatch(batchSize, pageToken)
GetNextThreadBatch(batchSize, pageToken, estimate) ==
    LET response == threads_list(pageToken, batchSize, estimate)
    IN  [items |-> response.threads, nextPageToken |-> response.nextPageToken,
         resultSizeEstimate |-> response.resultSizeEstimate]

\* The batch is listed and the progress write comes next, before syncThreadsBulk.
BatchListThenUpdate(i, estimate) ==
    /\ inv[i].kind = "syncBatch" /\ inv[i].pc = "list"
    /\ LET threads == GetNextThreadBatch(SYNC_BATCH_SIZE, inv[i].syncJob.nextPageToken, estimate)
       IN  inv' = [inv EXCEPT ![i].threads = threads,
                              ![i].pc = IF Len(threads.items) = 0 THEN "completeEmpty"
                                        ELSE "update"]
    /\ UNCHANGED <<db, syncJob, user, mailbox, returns, used, bulk,
                 progressCalls, ui>>

\* syncBatch: the next batch is listed from the cursor of the job as it was read.
BatchList(i, estimate) ==
    /\ inv[i].kind = "syncBatch" /\ inv[i].pc = "list"
    /\ LET threads == GetNextThreadBatch(SYNC_BATCH_SIZE, inv[i].syncJob.nextPageToken, estimate)
       IN  inv' = [inv EXCEPT ![i].threads = threads,
                              ![i].pc = IF Len(threads.items) = 0 THEN "completeEmpty"
                                        ELSE "bulk"]
    /\ UNCHANGED <<db, syncJob, user, mailbox, returns, used, bulk,
                 progressCalls, ui>>

\* syncBatch, threads.items.length === 0: the job is completed ...
BatchCompleteEmpty(i) ==
    /\ inv[i].kind = "syncBatch" /\ inv[i].pc = "completeEmpty"
    /\ syncJob' = CompleteSyncJob(syncJob, inv[i].syncJobId, "COMPLETED", "")
    /\ inv' = [inv EXCEPT ![i].pc = "userEmpty"]
    /\ UNCHANGED <<db, user, mailbox, returns, used, bulk,
                 progressCalls, ui>>

\* ... the owner marked COMPLETED, and completed: true returned.
BatchUserEmpty(i) ==
    /\ inv[i].kind = "syncBatch" /\ inv[i].pc = "userEmpty"
    /\ user' = [syncStatus |-> "COMPLETED", lastSyncedAt |-> user.lastSyncedAt + 1]
    /\ Return(i, [completed |-> TRUE, progress |-> 100,
                  processedItems |-> inv[i].syncJob.processedItems,
                  totalItems |-> inv[i].syncJob.totalItems])
    /\ UNCHANGED <<db, syncJob, mailbox, returns, used, bulk,
                 progressCalls, ui>>

\* syncBatch: the batch goes through syncThreadsBulk; failed are the threads
\* whose threads.get throws.
BatchBulk(i, failed) ==
    /\ inv[i].kind = "syncBatch" /\ inv[i].pc = "bulk"
    /\ \E bulkResult \in {SyncThreadsBulk(db, inv[i].threads.items, failed)} :
           /\ db' = bulkResult.db
           /\ IF bulkResult.threw
              THEN Throw(i, "malformedMessage", inv[i].syncJob.id)
              ELSE inv' = [inv EXCEPT ![i].pc = "update",
                                      ![i].processedInBatch = bulkResult.processedCount]
    /\ UNCHANGED <<syncJob, user, mailbox, returns, used, bulk,
                 progressCalls, ui>>

NewProcessedItemsOfBatch(i) == inv[i].processedInBatch

NewProcessedItems(i) == inv[i].syncJob.processedItems + inv[i].processedInBatch
\* The list estimate taken as it comes.
EstimatedTotalOfEstimate(i) == inv[i].threads.resultSizeEstimate

EstimatedTotal(i) == Max(inv[i].threads.resultSizeEstimate, NewProcessedItems(i))

BatchResult(i) ==
    [completed |-> inv[i].threads.nextPageToken = Null,
     progress |-> Min(BatchProgress(NewProcessedItems(i), EstimatedTotal(i)), 100),
     processedItems |-> NewProcessedItems(i),
     totalItems |-> EstimatedTotal(i)]

\* syncBatch: cursor and counters are written to the job row; with a further
\* page the call returns completed: false.
BatchUpdate(i) ==
    /\ inv[i].kind = "syncBatch" /\ inv[i].pc = "update"
    /\ syncJob' = [syncJob EXCEPT
          ![inv[i].syncJobId].nextPageToken = inv[i].threads.nextPageToken,
          ![inv[i].syncJobId].processedItems = NewProcessedItems(i),
          ![inv[i].syncJobId].totalItems = EstimatedTotal(i),
          ![inv[i].syncJobId].progress =
              BatchProgress(NewProcessedItems(i), EstimatedTotal(i))]
    /\ IF inv[i].threads.nextPageToken = Null
       THEN inv' = [inv EXCEPT ![i].pc = "complete"]
       ELSE Return(i, BatchResult(i))
    /\ UNCHANGED <<db, user, mailbox, returns, used, bulk,
                 progressCalls, ui>>

\* syncBatch, final batch: the job is completed ...
BatchComplete(i) ==
    /\ inv[i].kind = "syncBatch" /\ inv[i].pc = "complete"
    /\ syncJob' = CompleteSyncJob(syncJob, inv[i].syncJobId, "COMPLETED", "")
    /\ inv' = [inv EXCEPT ![i].pc = "user"]
    /\ UNCHANGED <<db, user, mailbox, returns, used, bulk,
                 progressCalls, ui>>

\* ... the owner marked COMPLETED, and completed: true returned.
BatchUser(i) ==
    /\ inv[i].kind = "syncBatch" /\ inv[i].pc = "user"
    /\ user' = [syncStatus |-> "COMPLETED", lastSyncedAt |-> user.lastSyncedAt + 1]
    /\ Return(i, BatchResult(i))
    /\ UNCHANGED <<db, syncJob, mailbox, returns, used, bulk,
                 progressCalls, ui>>

\* An await of syncBatch throws (the mailbox API or the record store fails):
\* syncBatch has no catch, the router's catch rethrows.
BatchThrows(i) ==
    /\ inv[i].kind = "syncBatch"
    /\ inv[i].pc \in {"syncLabels", "list", "update"}
    /\ used.faults < MaxFaults
    /\ used' = [used EXCEPT !.faults = @ + 1]
    /\ Throw(i, inv[i].pc, inv[i].syncJob.id)
    /\ UNCHANGED <<db, syncJob, user, mailbox, returns, bulk,
                 progressCalls, ui>>

\* syncThreadsBulk: db.thread.upsert throws for the n-th thread of the batch;
\* the threads before it are stored, the error leaves syncThreadsBulk and syncBatch.
BatchThreadUpsertThrows(i) ==
    /\ inv[i].kind = "syncBatch" /\ inv[i].pc = "bulk"
    /\ used.faults < MaxFaults
    /\ ~PrepareThrows(inv[i].threads.items)
    /\ LET threadsToCreate == ThreadsToCreate(inv[i].threads.items)
       IN  /\ threadsToCreate # <<>>
           /\ \E n \in {1, Len(threadsToCreate)} :
                 db' = [db EXCEPT !.thread =
                           UpsertThreads(@, SubSeq(threadsToCreate, 1, n - 1), <<>>).tbl]
    /\ used' = [used EXCEPT !.faults = @ + 1]
    /\ Throw(i, "threadUpsert", inv[i].syncJob.id)
    /\ UNCHANGED <<syncJob, user, mailbox, returns, bulk,
                 progressCalls, ui>>

-----------------------------------------------------------------------------
(* syncThread, syncMessage: the per-thread path of syncThreads *)

\* db.message.upsert({where: {gmailMessageId}, update, create}); update writes
\* snippet, htmlS3Key, textContent and labelIds, of which the rows of the model
\* keep labelIds.
MessageUpsert(tbl, m, threadId) ==
    LET hit == RowsWhere(tbl, LAMBDA r : r.gmailMessageId = m.id)
    IN  IF hit # {}
        THEN LET i == CHOOSE i \in hit : TRUE
             IN  [tbl |-> [tbl EXCEPT ![i].labelIds = m.labelIds], id |-> tbl[i].id]
        ELSE [tbl |-> Append(tbl, [id |-> Len(tbl) + 1, gmailMessageId |-> m.id,
                                   gmailThreadId |-> m.threadId, threadId |-> threadId,
                                   labelIds |-> m.labelIds]),
              id |-> Len(tbl) + 1]

RECURSIVE SyncAttachments(_, _, _)
SyncAttachments(tbl, messageId, parts) ==
    IF parts = <<>> THEN tbl
    ELSE SyncAttachments(SyncAttachment(tbl, messageId, Head(parts)), messageId, Tail(parts))

\* The loop over threadData.messages; a message without payload.headers makes
\* syncMessage throw, which ends the thread in syncThread's catch.
RECURSIVE SyncMessages(_, _, _)
SyncMessages(d, msgs, threadId) ==
    IF msgs = <<>> THEN d
    ELSE IF ~Head(msgs).hasHeaders THEN d
    ELSE LET up == MessageUpsert(d.message, Head(msgs), threadId)
         IN  SyncMessages(
                 [d EXCEPT !.message = up.tbl,
                           !.attachment = SyncAttachments(@, up.id, Head(msgs).attachments)],
                 Tail(msgs), threadId)

\* syncThreadLabels(threadId, labelIds)
SyncThreadLabels(d, threadId, labelIds) ==
    [d EXCEPT !.labelThread =
        LabelThreadDeleteMany(@, {threadId}) \cup LabelThreadRows(d, threadId, labelIds)]

SyncThread(d, t) ==
    LET msgs == MessagesOf(t)
    IN  IF msgs = <<>> THEN d
        ELSE IF SubjectThrows(msgs) THEN d
        ELSE LET up == ThreadUpsert(d.thread, t)
                 synced == SyncMessages([d EXCEPT !.thread = up.tbl], msgs, up.id)
             IN  IF \A k \in 1..Len(msgs) : msgs[k].hasHeaders
                 THEN SyncThreadLabels(synced, up.id, LastLabelIds(t))
                 ELSE synced

\* Promise.all(batch.map(syncThread)); failed are the threads whose threads.get
\* throws an error that syncThread's catch swallows.
RECURSIVE SyncThreadBatch(_, _, _)
SyncThreadBatch(d, batch, failed) ==
    IF batch = <<>> THEN d
    ELSE IF Len(batch) = 1
    THEN IF batch[1] \in failed THEN d ELSE SyncThread(d, batch[1])
    ELSE LET half == Len(batch) \div 2
             done == SyncThreadBatch(d, SubSeq(batch, 1, half), failed)
         IN  \* the first half is settled before the second is started on
             IF Len(done.thread) >= 0
             THEN SyncThreadBatch(done, SubSeq(batch, half + 1, Len(batch)), failed)
             ELSE d

-----------------------------------------------------------------------------
(* syncMailbox and syncThreads *)

\* syncMailbox(syncType) is entered on a fresh service and creates its job.
MailboxCreate(i, syncType) ==
    /\ inv[i].pc \in {"idle", "done"}
    /\ used' = [used EXCEPT !.calls = @ + 1]
    /\ LET job == NewJob(Len(syncJob) + 1, syncType)
       IN  /\ syncJob' = Append(syncJob, job)
           /\ inv' = [inv EXCEPT ![i] = [IdleInv EXCEPT !.kind = "syncMailbox",
                                                       !.pc = "userSyncing",
                                                       !.syncJobId = job.id]]
    /\ UNCHANGED <<db, user, mailbox, returns, bulk,
                 progressCalls, ui>>

MailboxUserSyncing(i) ==
    /\ inv[i].kind = "syncMailbox" /\ inv[i].pc = "userSyncing"
    /\ user' = [user EXCEPT !.syncStatus = "SYNCING"]
    /\ inv' = [inv EXCEPT ![i].pc = "progress1"]
    /\ UNCHANGED <<db, syncJob, mailbox, returns, used, bulk,
                 progressCalls, ui>>

\* updateSyncProgress(1, 100)
MailboxProgress1(i) ==
    /\ inv[i].kind = "syncMailbox" /\ inv[i].pc = "progress1"
    /\ syncJob' = UpdateSyncProgress(syncJob, inv[i].syncJobId, 1, 100)
    /\ inv' = [inv EXCEPT ![i].pc = "syncLabels"]
    /\ UNCHANGED <<db, user, mailbox, returns, used, bulk,
                 progressCalls, ui>>

MailboxSyncLabels(i) ==
    /\ inv[i].kind = "syncMailbox" /\ inv[i].pc = "syncLabels"
    /\ db' = SyncLabels(db)
    /\ inv' = [inv EXCEPT ![i].pc = "progress3"]
    /\ UNCHANGED <<syncJob, user, mailbox, returns, used, bulk,
                 progressCalls, ui>>

\* updateSyncProgress(3, 100); syncThreads is entered next.
MailboxProgress3(i) ==
    /\ inv[i].kind = "syncMailbox" /\ inv[i].pc = "progress3"
    /\ syncJob' = UpdateSyncProgress(syncJob, inv[i].syncJobId, 3, 100)
    /\ inv' = [inv EXCEPT ![i].pc = "page", ![i].pageToken = Null,
                          ![i].totalThreads = 0, ![i].processedThreads = 0]
    /\ UNCHANGED <<db, user, mailbox, returns, used, bulk,
                 progressCalls, ui>>

\* syncThreads, top of the loop in production: the elapsed time exceeds
\* PRODUCTION_TIMEOUT and syncThreads returns. The first pass starts at elapsed
\* time zero; every later pass holds the cursor of a further page.
SyncThreadsTimeout(i) ==
    /\ inv[i].kind = "syncMailbox" /\ inv[i].pc = "page"
    /\ inv[i].pageToken # Null
    /\ inv' = [inv EXCEPT ![i].pc = "complete", ![i].expired = TRUE]
    /\ UNCHANGED <<db, syncJob, user, mailbox, returns, used, bulk,
                 progressCalls, ui>>

\* Where the loop of syncThreads goes once a page is done.
AfterPage(nextPageToken) == IF nextPageToken # Null THEN "page" ELSE "complete"

\* syncThreads: one page is listed.
SyncThreadsPage(i, estimate) ==
    /\ inv[i].kind = "syncMailbox" /\ inv[i].pc = "page"
    /\ LET response == threads_list(inv[i].pageToken, THREADS_PER_PAGE, estimate)
           threads == response.threads
       IN  inv' = [inv EXCEPT
              ![i].threads = [items |-> threads, nextPageToken |-> response.nextPageToken,
                              resultSizeEstimate |-> response.resultSizeEstimate],
              ![i].totalThreads = Max(Max(@, response.resultSizeEstimate),
                                      inv[i].processedThreads + Len(threads)),
              ![i].i = 0,
              ![i].pageToken = IF Len(threads) = 0 THEN response.nextPageToken ELSE @,
              ![i].pc = IF Len(threads) = 0 THEN AfterPage(response.nextPageToken)
                        ELSE "batch"]
    /\ UNCHANGED <<db, syncJob, user, mailbox, returns, used, bulk,
                 progressCalls, ui>>

CurrentBatch(i) ==
    SubSeq(inv[i].threads.items, inv[i].i + 1,
           Min(inv[i].i + BATCH_SIZE, Len(inv[i].threads.items)))

\* syncThreads: one batch of the page goes through syncThread concurrently.
SyncThreadsBatch(i, failed) ==
    /\ inv[i].kind = "syncMailbox" /\ inv[i].pc = "batch"
    /\ db' = SyncThreadBatch(db, CurrentBatch(i), failed)
    /\ inv' = [inv EXCEPT ![i].processedThreads = @ + Len(CurrentBatch(i)),
                          ![i].pc = "progress"]
    /\ UNCHANGED <<syncJob, user, mailbox, returns, used, bulk,
                 progressCalls, ui>>

\* syncThreads: updateSyncProgress(processedThreads, totalThreads), then the next
\* batch, the next page, or the end of the loop.
SyncThreadsProgress(i) ==
    /\ inv[i].kind = "syncMailbox" /\ inv[i].pc = "progress"
    /\ syncJob' = UpdateSyncProgress(syncJob, inv[i].syncJobId,
                                     inv[i].processedThreads, inv[i].totalThreads)
    /\ inv' = IF inv[i].i + BATCH_SIZE < Len(inv[i].threads.items)
              THEN [inv EXCEPT ![i].i = @ + BATCH_SIZE, ![i].pc = "batch"]
              ELSE [inv EXCEPT ![i].pageToken = inv[i].threads.nextPageToken,
                               ![i].pc = AfterPage(inv[i].threads.nextPageToken)]
    /\ UNCHANGED <<db, user, mailbox, returns, used, bulk,
                 progressCalls, ui>>

\* syncMailbox after syncThreads returned: completeSyncJob("COMPLETED") ...
MailboxComplete(i) ==
    /\ inv[i].kind = "syncMailbox" /\ inv[i].pc = "complete"
    /\ syncJob' = CompleteSyncJob(syncJob, inv[i].syncJobId, "COMPLETED", "")
    /\ inv' = [inv EXCEPT ![i].pc = "userCompleted"]
    /\ UNCHANGED <<db, user, mailbox, returns, used, bulk,
                 progressCalls, ui>>

\* ... and the owner marked COMPLETED with lastSyncedAt.
MailboxUserCompleted(i) ==
    /\ inv[i].kind = "syncMailbox" /\ inv[i].pc = "userCompleted"
    /\ user' = [syncStatus |-> "COMPLETED", lastSyncedAt |-> user.lastSyncedAt + 1]
    /\ Return(i, NoResult)
    /\ UNCHANGED <<db, syncJob, mailbox, returns, used, bulk,
                 progressCalls, ui>>

\* An await inside syncMailbox's try block throws.
MailboxThrows(i) ==
    /\ inv[i].kind = "syncMailbox"
    /\ inv[i].pc \in {"syncLabels", "page", "progress"}
    /\ used.faults < MaxFaults
    /\ used' = [used EXCEPT !.faults = @ + 1]
    /\ inv' = [inv EXCEPT ![i].pc = "catch", ![i].error = inv[i].pc]
    /\ UNCHANGED <<db, syncJob, user, mailbox, returns, bulk,
                 progressCalls, ui>>

\* syncThread rethrows an error whose message includes "connection".
SyncThreadConnectionError(i) ==
    /\ inv[i].kind = "syncMailbox" /\ inv[i].pc = "batch"
    /\ used.faults < MaxFaults
    /\ used' = [used EXCEPT !.faults = @ + 1]
    /\ inv' = [inv EXCEPT ![i].pc = "catch", ![i].error = "connection"]
    /\ UNCHANGED <<db, syncJob, user, mailbox, returns, bulk,
                 progressCalls, ui>>

\* syncMailbox's catch: completeSyncJob("FAILED", errorMessage) ...
MailboxCatchComplete(i) ==
    /\ inv[i].kind = "syncMailbox" /\ inv[i].pc = "catch"
    /\ syncJob' = CompleteSyncJob(syncJob, inv[i].syncJobId, "FAILED", inv[i].error)
    /\ inv' = [inv EXCEPT ![i].pc = "userFailed"]
    /\ UNCHANGED <<db, user, mailbox, returns, used, bulk,
                 progressCalls, ui>>

\* ... the owner marked FAILED, and the error thrown on.
MailboxCatchUser(i) ==
    /\ inv[i].kind = "syncMailbox" /\ inv[i].pc = "userFailed"
    /\ user' = [user EXCEPT !.syncStatus = "FAILED"]
    /\ Throw(i, inv[i].error, inv[i].syncJobId)
    /\ UNCHANGED <<db, syncJob, mailbox, returns, used, bulk,
                 progressCalls, ui>>

-----------------------------------------------------------------------------
(* handleSync's loop: syncBatch called again and again until it returns     *)
(* completed: true, one call at a time, every estimate of the API exact,    *)
(* no error.                                                                *)

MaxThreads == 120    \* the largest mailbox of the sequential runs

SeqSizes ==
    {0, 1, SYNC_BATCH_SIZE - 1, SYNC_BATCH_SIZE, SYNC_BATCH_SIZE + 1,
     2 * SYNC_BATCH_SIZE + 5, 3 * SYNC_BATCH_SIZE, MaxThreads}

\* The Sidebar as mounted: useState(false), no handleSync running, the
\* getSyncStatus query answered before any sync.
IdleLoop == [pc |-> "idle", attempt |-> 0, timeout |-> "none"]
IdleUi ==
    [isSyncing |-> FALSE, syncStatus |-> "none", clicks |-> 0,
     loop |-> [l \in Inv |-> IdleLoop]]

InitStore ==
    /\ db = EmptyDb
    /\ syncJob = <<>>
    /\ user = [syncStatus |-> "IDLE", lastSyncedAt |-> 0]
    /\ inv = [i \in Inv |-> IdleInv]
    /\ returns = <<>>
    /\ used = [calls |-> 0, faults |-> 0]
    /\ bulk = [runs |-> 0, items |-> <<>>, failed |-> {}, counts |-> Counts(EmptyDb),
               again |-> FALSE]
    /\ progressCalls = <<>>
    /\ ui = IdleUi

InitSeq ==
    /\ InitStore
    /\ \E n \in SeqSizes : mailbox = [hidden |-> 0, threads |-> n, malformed |-> FALSE, relabelled |-> FALSE]

\* while (!completed && attempt < maxAttempts): syncBatch.mutateAsync() is sent.
HandleSyncCall ==
    /\ IF returns = <<>> THEN TRUE ELSE ~returns[Len(returns)].completed
    /\ Len(returns) < maxAttempts
    /\ inv[1].pc = "idle"
    /\ BatchFindFirst(1)

\* The await resumes with the result: completed = result.completed; attempt++.
HandleSyncResult ==
    /\ inv[1].pc = "done" /\ inv[1].outcome = "returned"
    /\ returns' = Append(returns, inv[1].result)
    /\ inv' = [inv EXCEPT ![1] = IdleInv]
    /\ UNCHANGED <<db, syncJob, user, mailbox, used, bulk,
                 progressCalls, ui>>

NextSeq ==
    \/ HandleSyncCall
    \/ HandleSyncResult
    \/ BatchCreate(1)
    \/ BatchSyncLabels(1)
    \/ BatchList(1, mailbox.threads)
    \/ BatchCompleteEmpty(1)
    \/ BatchUserEmpty(1)
    \/ BatchBulk(1, {})
    \/ BatchUpdate(1)
    \/ BatchComplete(1)
    \/ BatchUser(1)

SpecSeq == InitSeq /\ [][NextSeq]_vars

-----------------------------------------------------------------------------
(* handleSync's loop of syncBatch calls, one at a time, where threads.get    *)
(* may fail for one thread of a batch.                                       *)

RetrySizes == {0, SYNC_BATCH_SIZE + 2}

InitRetry ==
    /\ InitStore
    /\ \E n \in RetrySizes :
          mailbox = [hidden |-> 0, threads |-> n, malformed |-> FALSE,
                     relabelled |-> FALSE]

\* The thread fetches that may fail in one batch: none, or any one thread.
OneFetchFailure(items) == {{}} \cup {{items[k]} : k \in DOMAIN items}

NextRetry ==
    \/ HandleSyncCall
    \/ HandleSyncResult
    \/ BatchCreate(1)
    \/ BatchSyncLabels(1)
    \/ BatchList(1, mailbox.threads)
    \/ BatchCompleteEmpty(1)
    \/ BatchUserEmpty(1)
    \/ \E failed \in OneFetchFailure(inv[1].threads.items) : BatchBulk(1, failed)
    \/ BatchUpdate(1)
    \/ BatchComplete(1)
    \/ BatchUser(1)

SpecRetry == InitRetry /\ [][NextRetry]_vars

-----------------------------------------------------------------------------
(* Concurrent invocations for one owner: the router's syncBatch and         *)
(* syncMailbox mutations, with errors and inexact estimates.                *)

Mailboxes ==
    {[hidden |-> 0, threads |-> 2, malformed |-> FALSE, relabelled |-> FALSE],
     [hidden |-> 0, threads |-> SYNC_BATCH_SIZE + 2, malformed |-> FALSE, relabelled |-> FALSE],
     [hidden |-> THREADS_PER_PAGE, threads |-> 2, malformed |-> FALSE, relabelled |-> FALSE],
     [hidden |-> 0, threads |-> MaxThreadId, malformed |-> TRUE, relabelled |-> FALSE]}

\* The thread fetches that may fail in one batch: none, or one thread.
FetchFailures(items) ==
    IF items = <<>> THEN {{}} ELSE {{}, {items[1]}}

Init ==
    /\ InitStore
    /\ mailbox \in Mailboxes

\* The requests of one behaviour are bounded.
MayCall == used.calls < MaxCalls

SyncBatchStep(i) ==
    \/ MayCall /\ BatchFindFirst(i)
    \/ BatchCreate(i)
    \/ BatchSyncLabels(i)
    \/ \E estimate \in Estimates : BatchList(i, estimate)
    \/ BatchCompleteEmpty(i)
    \/ BatchUserEmpty(i)
    \/ \E failed \in FetchFailures(inv[i].threads.items) : BatchBulk(i, failed)
    \/ BatchUpdate(i)
    \/ BatchComplete(i)
    \/ BatchUser(i)
    \/ BatchThrows(i)
    \/ BatchThreadUpsertThrows(i)

SyncMailboxStep(i) ==
    \/ MayCall /\ MailboxCreate(i, "FULL")
    \/ MailboxUserSyncing(i)
    \/ MailboxProgress1(i)
    \/ MailboxSyncLabels(i)
    \/ MailboxProgress3(i)
    \/ SyncThreadsTimeout(i)
    \/ \E estimate \in Estimates : SyncThreadsPage(i, estimate)
    \/ \E failed \in FetchFailures(CurrentBatch(i)) : SyncThreadsBatch(i, failed)
    \/ SyncThreadsProgress(i)
    \/ MailboxComplete(i)
    \/ MailboxUserCompleted(i)
    \/ MailboxThrows(i)
    \/ SyncThreadConnectionError(i)
    \/ MailboxCatchComplete(i)
    \/ MailboxCatchUser(i)

\* Invocation 1 is the Sidebar's syncBatch loop, invocation 2 any other request.
Next == SyncBatchStep(1) \/ SyncBatchStep(2) \/ SyncMailboxStep(2)

Spec == Init /\ [][Next]_vars

-----------------------------------------------------------------------------
(* The scheduled sync: syncMailbox("PARTIAL") runs one after the other over  *)
(* mailboxes of several pages, with the production deadline.                 *)

MaxSyncs == 2    \* scheduled syncs in one behaviour

FullSizes == {0, 2, THREADS_PER_PAGE + SYNC_BATCH_SIZE, 2 * THREADS_PER_PAGE + 1}

InitFull ==
    /\ InitStore
    /\ \E n \in FullSizes : mailbox = [hidden |-> 0, threads |-> n, malformed |-> FALSE, relabelled |-> FALSE]

NextFull ==
    \/ used.calls < MaxSyncs /\ MailboxCreate(1, "PARTIAL")
    \/ MailboxUserSyncing(1)
    \/ MailboxProgress1(1)
    \/ MailboxSyncLabels(1)
    \/ MailboxProgress3(1)
    \/ SyncThreadsTimeout(1)
    \/ SyncThreadsPage(1, mailbox.threads)
    \/ \E failed \in FetchFailures(CurrentBatch(1)) : SyncThreadsBatch(1, failed)
    \/ SyncThreadsProgress(1)
    \/ MailboxComplete(1)
    \/ MailboxUserCompleted(1)
    \/ MailboxThrows(1)
    \/ SyncThreadConnectionError(1)
    \/ MailboxCatchComplete(1)
    \/ MailboxCatchUser(1)

SpecFull == InitFull /\ [][NextFull]_vars

-----------------------------------------------------------------------------
(* Pipeline runs over arbitrary thread-item lists *)

\* A page of a listing: consecutive thread ids, oldest or newest first.
ItemLists ==
    LET Windows == {w \in (1..MaxThreadId) \X (0..MaxItems) : w[1] + w[2] - 1 <= MaxThreadId}
    IN  {[k \in 1..w[2] |-> w[1] + k - 1] : w \in Windows}
        \cup {[k \in 1..w[2] |-> w[1] + w[2] - k] : w \in Windows}

InitBulk ==
    /\ InitStore
    /\ \E malformed \in BOOLEAN :
          mailbox = [hidden |-> 0, threads |-> MaxThreadId, malformed |-> malformed, relabelled |-> FALSE]

\* One run of the pipeline over a fresh input.
BulkRun ==
    /\ bulk.runs < MaxRuns
    /\ \E items \in ItemLists :
       \E failed \in SUBSET {items[i] : i \in DOMAIN items} :
          /\ Cardinality(failed) <= 1
          /\ db' = SyncThreadsBulk(db, items, failed).db
          /\ bulk' = [runs |-> bulk.runs + 1, items |-> items, failed |-> failed,
                      counts |-> Counts(db'), again |-> FALSE]
    /\ UNCHANGED <<syncJob, user, mailbox, inv, returns, used, progressCalls, ui>>

\* The same input, with the same answers of the mailbox API, run once more.
BulkRunAgain ==
    /\ bulk.runs > 0
    /\ ~bulk.again
    /\ db' = SyncThreadsBulk(db, bulk.items, bulk.failed).db
    /\ bulk' = [bulk EXCEPT !.again = TRUE]
    /\ UNCHANGED <<syncJob, user, mailbox, inv, returns, used, progressCalls, ui>>

NextBulk == BulkRun \/ BulkRunAgain

SpecBulk == InitBulk /\ [][NextBulk]_vars

-----------------------------------------------------------------------------
(* Sync passes of both modes over the same mailbox, whose owner may relabel  *)
(* its messages between two passes.                                          *)

InitPasses ==
    /\ InitStore
    /\ mailbox = [hidden |-> 0, threads |-> MaxThreadId, malformed |-> FALSE,
                  relabelled |-> FALSE]

\* messages.modify by the owner of the mailbox: later threads.get answers carry
\* other labelIds for the same message ids.
MailboxRelabel ==
    /\ ~mailbox.relabelled
    /\ mailbox' = [mailbox EXCEPT !.relabelled = TRUE]
    /\ UNCHANGED <<db, syncJob, user, inv, returns, used, bulk, progressCalls, ui>>

\* A batch-mode pass: syncThreadsBulk over one listing page.
PassBulk ==
    /\ bulk.runs < MaxRuns
    /\ \E items \in ItemLists :
          /\ db' = SyncThreadsBulk(db, items, {}).db
          /\ bulk' = [bulk EXCEPT !.runs = @ + 1, !.items = items]
    /\ UNCHANGED <<syncJob, user, mailbox, inv, returns, used, progressCalls, ui>>

\* A continuous-mode pass: syncThread for each thread of one batch.
PassContinuous ==
    /\ bulk.runs < MaxRuns
    /\ \E items \in ItemLists :
          /\ db' = SyncThreadBatch(db, items, {})
          /\ bulk' = [bulk EXCEPT !.runs = @ + 1, !.items = items]
    /\ UNCHANGED <<syncJob, user, mailbox, inv, returns, used, progressCalls, ui>>

NextPasses == MailboxRelabel \/ PassBulk \/ PassContinuous

SpecPasses == InitPasses /\ [][NextPasses]_vars

-----------------------------------------------------------------------------
(* syncThreadsBulk step by step: the labels are synced, then batches go      *)
(* through the thread upserts, the message insert, the attachments and the   *)
(* label reconciliation, each an await of its own.                           *)

InitPhases ==
    /\ InitStore
    /\ mailbox = [hidden |-> 0, threads |-> MaxThreadId, malformed |-> FALSE, relabelled |-> FALSE]

\* syncBatch's one-time syncLabels, before any batch.
PhaseSyncLabels ==
    /\ db.label = {}
    /\ db' = SyncLabels(db)
    /\ UNCHANGED <<syncJob, user, mailbox, inv, returns, used, bulk, progressCalls, ui>>

\* Step 1: the threads of the batch are fetched.
PhaseFetch ==
    /\ db.label # {}
    /\ inv[1].pc \in {"idle", "done"}
    /\ used.calls < MaxRuns
    /\ used' = [used EXCEPT !.calls = @ + 1]
    /\ \E items \in ItemLists :
       \E failed \in SUBSET {items[i] : i \in DOMAIN items} :
          /\ Cardinality(failed) <= 1
          /\ ~PrepareThrows(ValidThreads(items, failed))
          /\ inv' = [inv EXCEPT ![1] = [IdleInv EXCEPT
                        !.kind = "syncThreadsBulk", !.pc = "threads",
                        !.validThreads = ValidThreads(items, failed)]]
    /\ UNCHANGED <<db, syncJob, user, mailbox, returns, bulk, progressCalls, ui>>

PhaseThreads ==
    /\ inv[1].pc = "threads"
    /\ LET threads == BulkThreads(db, inv[1].validThreads)
       IN  /\ db' = threads.db
           /\ inv' = [inv EXCEPT ![1].pc = "messages",
                                 ![1].createdThreads = threads.createdThreads]
    /\ UNCHANGED <<syncJob, user, mailbox, returns, used, bulk, progressCalls, ui>>

PhaseMessages ==
    /\ inv[1].pc = "messages"
    /\ db' = BulkMessages(db, inv[1].validThreads, inv[1].createdThreads)
    /\ inv' = [inv EXCEPT ![1].pc = "attachments"]
    /\ UNCHANGED <<syncJob, user, mailbox, returns, used, bulk, progressCalls, ui>>

PhaseAttachments ==
    /\ inv[1].pc = "attachments"
    /\ db' = BulkAttachments(db, inv[1].validThreads)
    /\ inv' = [inv EXCEPT ![1].pc = "labels"]
    /\ UNCHANGED <<syncJob, user, mailbox, returns, used, bulk, progressCalls, ui>>

\* Step 5; the locals stay readable once the call is over.
PhaseLabels ==
    /\ inv[1].pc = "labels"
    /\ db' = SyncThreadLabelsBulk(db, inv[1].validThreads, inv[1].createdThreads)
    /\ inv' = [inv EXCEPT ![1].pc = "done"]
    /\ UNCHANGED <<syncJob, user, mailbox, returns, used, bulk, progressCalls, ui>>

NextPhases ==
    \/ PhaseSyncLabels
    \/ PhaseFetch
    \/ PhaseThreads
    \/ PhaseMessages
    \/ PhaseAttachments
    \/ PhaseLabels

SpecPhases == InitPhases /\ [][NextPhases]_vars

-----------------------------------------------------------------------------
(* syncAttachment step by step: two invocations of syncThreadsBulk, each     *)
(* past its message insert, walk their attachments; the existence check, the *)
(* download and the create are awaits of their own.                          *)

InitAttach ==
    /\ InitStore
    /\ mailbox = [hidden |-> 0, threads |-> MaxThreadId, malformed |-> FALSE,
                  relabelled |-> FALSE]

\* attachmentsToProcess of invocation i.
AttachTodo(i) == AttachmentsToProcess(MessagesToCreate(ThreadsToCreate(inv[i].validThreads)))

\* messageIdMap.get(gmailMessageId) for the attachment the invocation is at;
\* Undefined when the message has no row.
AttachMessageId(i) ==
    LET item == AttachTodo(i)[inv[i].i]
        hit == RowsWhere(db.message, LAMBDA r : r.gmailMessageId = item.gmailMessageId)
    IN  IF hit = {} THEN Undefined ELSE db.message[CHOOSE k \in hit : TRUE].id

\* Rows of the attachment table for (messageId, gmailAttachmentId).
AttachmentRows(messageId, attachmentId) ==
    RowsWhere(db.attachment, LAMBDA r : r.messageId = messageId
                                        /\ r.gmailAttachmentId = attachmentId)

\* Steps 1 to 3 of syncThreadsBulk for one page: fetch, thread upserts, message
\* insert.
AttachStart(i) ==
    /\ inv[i].pc \in {"idle", "done"}
    /\ used.calls < MaxRuns
    /\ used' = [used EXCEPT !.calls = @ + 1]
    /\ \E items \in ItemLists :
          LET validThreads == ValidThreads(items, {})
              threads == BulkThreads(db, validThreads)
          IN  /\ ~PrepareThrows(validThreads)
              /\ db' = BulkMessages(threads.db, validThreads, threads.createdThreads)
              /\ inv' = [inv EXCEPT ![i] = [IdleInv EXCEPT
                            !.kind = "syncThreadsBulk", !.pc = "attachment",
                            !.validThreads = validThreads,
                            !.createdThreads = threads.createdThreads,
                            !.i = 1]]
    /\ UNCHANGED <<syncJob, user, mailbox, returns, bulk, progressCalls, ui>>

\* The attachment loop is over.
AttachDone(i) ==
    /\ inv[i].pc = "attachment"
    /\ inv[i].i > Len(AttachTodo(i))
    /\ inv' = [inv EXCEPT ![i].pc = "done"]
    /\ UNCHANGED <<db, syncJob, user, mailbox, returns, used, bulk, progressCalls, ui>>

\* db.attachment.findFirst({where: {messageId, gmailAttachmentId}}); if
\* (existing) return. An attachment whose message has no row is not processed.
AttachFindFirst(i) ==
    /\ inv[i].pc = "attachment"
    /\ inv[i].i <= Len(AttachTodo(i))
    /\ LET messageId == AttachMessageId(i)
           part == AttachTodo(i)[inv[i].i].attachment
       IN  inv' = IF messageId = Undefined
                     \/ AttachmentRows(messageId, part.attachmentId) # {}
                  THEN [inv EXCEPT ![i].i = @ + 1]
                  ELSE [inv EXCEPT ![i].pc = "download"]
    /\ UNCHANGED <<db, syncJob, user, mailbox, returns, used, bulk, progressCalls, ui>>

\* gmail.users.messages.attachments.get; if (!response.data.data) return.
AttachDownload(i) ==
    /\ inv[i].pc = "download"
    /\ inv' = IF AttachTodo(i)[inv[i].i].attachment.hasData
              THEN [inv EXCEPT ![i].pc = "create"]
              ELSE [inv EXCEPT ![i].pc = "attachment", ![i].i = @ + 1]
    /\ UNCHANGED <<db, syncJob, user, mailbox, returns, used, bulk, progressCalls, ui>>

\* uploadToS3, then db.attachment.create.
AttachCreate(i) ==
    /\ inv[i].pc = "create"
    /\ db' = [db EXCEPT !.attachment =
                 Append(@, [messageId |-> AttachMessageId(i),
                            gmailAttachmentId |->
                                AttachTodo(i)[inv[i].i].attachment.attachmentId])]
    /\ inv' = [inv EXCEPT ![i].pc = "attachment", ![i].i = @ + 1]
    /\ UNCHANGED <<syncJob, user, mailbox, returns, used, bulk, progressCalls, ui>>

AttachStep(i) ==
    \/ AttachStart(i)
    \/ AttachFindFirst(i)
    \/ AttachDownload(i)
    \/ AttachCreate(i)
    \/ AttachDone(i)

NextAttach == \E i \in Inv : AttachStep(i)

SpecAttach == InitAttach /\ [][NextAttach]_vars

-----------------------------------------------------------------------------
(* The scheduled endpoints: GET /api/cron/sync starts syncMailbox("PARTIAL") *)
(* for the owners it selects, POST continues an incomplete sync; the owner's *)
(* Sidebar sends syncBatch calls meanwhile. Every estimate exact, no error.  *)

MaxRequests == 2    \* requests to the scheduled endpoints in one behaviour

CRON_SECRET == "secret"    \* process.env.CRON_SECRET

\* The Authorization header of a request: absent, or a scheme and credentials.
NoHeader == <<>>
Headers ==
    {NoHeader, <<"Bearer ", CRON_SECRET>>, <<"Bearer ", "guess">>,
     <<"Basic ", CRON_SECRET>>}

\* authHeader !== `Bearer ${process.env.CRON_SECRET}` answers 401.
GetAuthorized(authHeader) == authHeader = <<"Bearer ", CRON_SECRET>>

\* !authHeader?.startsWith("Bearer ") answers 401.
PostAuthorized(authHeader) == authHeader # NoHeader /\ authHeader[1] = "Bearer "

InitCron ==
    /\ InitStore
    /\ \E n \in {0, 2} :
          mailbox = [hidden |-> 0, threads |-> n, malformed |-> FALSE,
                     relabelled |-> FALSE]

\* NextResponse.json(..., {status}) for a request, as the log of the endpoints.
Respond(endpoint, authHeader, status) ==
    returns' = Append(returns, [endpoint |-> endpoint, authorization |-> authHeader,
                                status |-> status])

\* db.user.findMany({where: {AND: [...]}}) selects the owner: never synced or
\* last synced before the threshold (stale), not SYNCING, with a live session.
UsersToSync(stale, session) ==
    /\ user.lastSyncedAt = 0 \/ stale
    /\ user.syncStatus # "SYNCING"
    /\ session

\* syncMailbox(syncType) is entered by an endpoint on invocation i: the job is
\* created.
StartSyncMailbox(i, syncType) ==
    LET job == NewJob(Len(syncJob) + 1, syncType)
    IN  /\ syncJob' = Append(syncJob, job)
        /\ inv' = [inv EXCEPT ![i] = [IdleInv EXCEPT !.kind = "syncMailbox",
                                                    !.pc = "userSyncing",
                                                    !.syncJobId = job.id]]

\* GET /api/cron/sync
CronGet(i, authHeader, stale, session, refreshToken) ==
    /\ Len(returns) < MaxRequests
    /\ inv[i].pc \in {"idle", "done"}
    /\ IF ~GetAuthorized(authHeader)
       THEN /\ Respond("GET", authHeader, "401")
            /\ UNCHANGED <<syncJob, inv>>
       ELSE IF ~UsersToSync(stale, session)
       THEN /\ Respond("GET", authHeader, "none")
            /\ UNCHANGED <<syncJob, inv>>
       ELSE IF ~refreshToken
       THEN /\ Respond("GET", authHeader, "no_token")
            /\ UNCHANGED <<syncJob, inv>>
       ELSE /\ Respond("GET", authHeader, "started")
            /\ StartSyncMailbox(i, "PARTIAL")
    /\ UNCHANGED <<db, user, mailbox, used, bulk, progressCalls, ui>>

\* POST /api/cron/sync with body {userId}
CronPost(i, authHeader, userId, refreshToken) ==
    /\ Len(returns) < MaxRequests
    /\ inv[i].pc \in {"idle", "done"}
    /\ LET incompleteSync == FindFirstRunning
       IN  IF ~PostAuthorized(authHeader)
           THEN /\ Respond("POST", authHeader, "401")
                /\ UNCHANGED <<syncJob, inv>>
           ELSE IF userId = Null
           THEN /\ Respond("POST", authHeader, "400")
                /\ UNCHANGED <<syncJob, inv>>
           ELSE IF incompleteSync = Null
           THEN /\ Respond("POST", authHeader, "404")
                /\ UNCHANGED <<syncJob, inv>>
           ELSE IF ~refreshToken
           THEN /\ Respond("POST", authHeader, "not_connected")
                /\ syncJob' = [syncJob EXCEPT ![incompleteSync].status = "FAILED",
                                              ![incompleteSync].error = "No refresh token",
                                              ![incompleteSync].completedAt = TRUE]
                /\ UNCHANGED inv
           ELSE /\ Respond("POST", authHeader, "started")
                /\ StartSyncMailbox(i, syncJob[incompleteSync].type)
    /\ UNCHANGED <<db, user, mailbox, used, bulk, progressCalls, ui>>

NextCron ==
    \/ \E authHeader \in Headers, stale, session, refreshToken \in BOOLEAN :
          CronGet(2, authHeader, stale, session, refreshToken)
    \/ \E authHeader \in Headers, userId \in {Null, 1}, refreshToken \in BOOLEAN :
          CronPost(2, authHeader, userId, refreshToken)
    \/ MailboxUserSyncing(2)
    \/ MailboxProgress1(2)
    \/ MailboxSyncLabels(2)
    \/ MailboxProgress3(2)
    \/ SyncThreadsPage(2, mailbox.threads)
    \/ SyncThreadsBatch(2, {})
    \/ SyncThreadsProgress(2)
    \/ MailboxComplete(2)
    \/ MailboxUserCompleted(2)
    \/ used.calls < MaxRuns /\ BatchFindFirst(1)
    \/ BatchCreate(1)
    \/ BatchSyncLabels(1)
    \/ BatchList(1, mailbox.threads)
    \/ BatchCompleteEmpty(1)
    \/ BatchUserEmpty(1)
    \/ BatchBulk(1, {})
    \/ BatchUpdate(1)
    \/ BatchComplete(1)
    \/ BatchUser(1)

SpecCron == InitCron /\ [][NextCron]_vars

-----------------------------------------------------------------------------
(* The Sidebar: the Sync Mail button, handleSync's loops and the syncBatch   *)
(* calls they send, every estimate of the API exact, no error.               *)

MaxClicks == 2    \* clicks on Sync Mail in one behaviour

InitUi ==
    /\ InitStore
    /\ \E n \in {0, SYNC_BATCH_SIZE + 2} :
          mailbox = [hidden |-> 0, threads |-> n, malformed |-> FALSE, relabelled |-> FALSE]

\* syncBatch.isPending: a syncBatch mutation is in flight.
IsPending == \E l \in Inv : ui.loop[l].pc = "calling"

\* disabled={isSyncing || syncBatch.isPending || syncStatus?.currentJob?.status === "RUNNING"}
ButtonDisabled == ui.isSyncing \/ IsPending \/ ui.syncStatus = "RUNNING"

\* onClick={handleSync}: past the isSyncing guard, setIsSyncing(true), the
\* 30-second timer is set and the loop sends its first syncBatch.mutateAsync().
ClickSync(l) ==
    /\ ui.clicks < MaxClicks
    /\ ~ButtonDisabled
    /\ ~ui.isSyncing
    /\ ui.loop[l].pc = "idle"
    /\ \A k \in Inv : ui.loop[k].pc = "idle" => l <= k
    /\ ui' = [ui EXCEPT !.isSyncing = TRUE, !.clicks = @ + 1,
                        !.loop[l] = [pc |-> "calling", attempt |-> 0, timeout |-> "set"]]
    /\ UNCHANGED <<db, syncJob, user, mailbox, inv, returns, used, bulk, progressCalls>>

\* The timer set by handleSync fires: setIsSyncing(false).
TimeoutFires(l) ==
    /\ ui.loop[l].timeout = "set"
    /\ ui' = [ui EXCEPT !.isSyncing = FALSE, !.loop[l].timeout = "fired"]
    /\ UNCHANGED <<db, syncJob, user, mailbox, inv, returns, used, bulk, progressCalls>>

\* The request reaches the router, which runs syncBatch.
LoopRequest(l) ==
    /\ ui.loop[l].pc = "calling"
    /\ inv[l].pc = "idle"
    /\ BatchFindFirst(l)

\* The result is back and the loop is left on completed, isSyncing kept as it is.
LoopResultKeepsSyncing(l) ==
    /\ ui.loop[l].pc = "calling"
    /\ inv[l].pc = "done"
    /\ inv' = [inv EXCEPT ![l] = IdleInv]
    /\ ui' = IF inv[l].result.completed
             THEN [ui EXCEPT !.loop[l] = IdleLoop]
             ELSE [ui EXCEPT !.loop[l].pc = "waiting"]
    /\ UNCHANGED <<db, syncJob, user, mailbox, returns, used, bulk, progressCalls>>

\* The result is back. completed: the loop is left and finally clears the
\* timer and resets isSyncing; otherwise the 2-second wait begins.
LoopResult(l) ==
    /\ ui.loop[l].pc = "calling"
    /\ inv[l].pc = "done"
    /\ inv' = [inv EXCEPT ![l] = IdleInv]
    /\ ui' = IF inv[l].result.completed
             THEN [ui EXCEPT !.isSyncing = FALSE, !.loop[l] = IdleLoop]
             ELSE [ui EXCEPT !.loop[l].pc = "waiting"]
    /\ UNCHANGED <<db, syncJob, user, mailbox, returns, used, bulk, progressCalls>>

\* The wait is over: attempt++, and the next syncBatch.mutateAsync() is sent
\* unless attempt has reached maxAttempts.
LoopWaitOver(l) ==
    /\ ui.loop[l].pc = "waiting"
    /\ ui' = IF ui.loop[l].attempt + 1 < maxAttempts
             THEN [ui EXCEPT !.loop[l].pc = "calling", !.loop[l].attempt = @ + 1]
             ELSE [ui EXCEPT !.isSyncing = FALSE, !.loop[l] = IdleLoop]
    /\ UNCHANGED <<db, syncJob, user, mailbox, inv, returns, used, bulk, progressCalls>>

\* What getSyncStatus answers: the status of the latest job.
GetSyncStatus == IF syncJob = <<>> THEN "none" ELSE syncJob[Len(syncJob)].status

\* The getSyncStatus query is fetched again (window focus, remount).
SyncStatusRefetch ==
    /\ ui.clicks > 0
    /\ ui.syncStatus # GetSyncStatus
    /\ ui' = [ui EXCEPT !.syncStatus = GetSyncStatus]
    /\ UNCHANGED <<db, syncJob, user, mailbox, inv, returns, used, bulk, progressCalls>>

LoopStep(l) ==
    \/ ClickSync(l)
    \/ TimeoutFires(l)
    \/ LoopRequest(l)
    \/ LoopResult(l)
    \/ LoopWaitOver(l)
    \/ BatchCreate(l)
    \/ BatchSyncLabels(l)
    \/ BatchList(l, mailbox.threads)
    \/ BatchCompleteEmpty(l)
    \/ BatchUserEmpty(l)
    \/ BatchBulk(l, {})
    \/ BatchUpdate(l)
    \/ BatchComplete(l)
    \/ BatchUser(l)

NextUi == SyncStatusRefetch \/ \E l \in Inv : LoopStep(l)

SpecUi == InitUi /\ [][NextUi]_vars

-----------------------------------------------------------------------------
(* One handleSync loop at a time, run to its end: the loop's continuations   *)
(* and the requests it sends are always served in the end; clicks, the       *)
(* 30-second timer and refetches may or may not happen.                      *)

\* Mailboxes of no, two and one more than maxAttempts pages.
LiveSizes == {0, SYNC_BATCH_SIZE + 2, maxAttempts * SYNC_BATCH_SIZE + 1}

InitLive ==
    /\ InitStore
    /\ \E n \in LiveSizes :
          mailbox = [hidden |-> 0, threads |-> n, malformed |-> FALSE, relabelled |-> FALSE]

\* What the event loop and the router do for the running handleSync, the
\* pipeline step aside.
SidebarRuns ==
    \/ LoopRequest(1)
    \/ LoopResult(1)
    \/ LoopWaitOver(1)
    \/ BatchCreate(1)
    \/ BatchSyncLabels(1)
    \/ BatchList(1, mailbox.threads)
    \/ BatchCompleteEmpty(1)
    \/ BatchUserEmpty(1)
    \/ BatchUpdate(1)
    \/ BatchComplete(1)
    \/ BatchUser(1)

NextLive ==
    ClickSync(1) \/ TimeoutFires(1) \/ SyncStatusRefetch \/ SidebarRuns \/ BatchBulk(1, {})

\* The pipeline step is enabled exactly while the invocation stands before it.
BulkPending == inv[1].kind = "syncBatch" /\ inv[1].pc = "bulk"

\* Weak fairness of the pipeline step, with its enabledness written out:
\* WF_vars(BatchBulk(1, {})).
BulkFair == []<>(~BulkPending) \/ []<><<BatchBulk(1, {})>>_vars

SpecLive == InitLive /\ [][NextLive]_vars /\ WF_vars(SidebarRuns) /\ BulkFair

-----------------------------------------------------------------------------
(* The scheduled sync run to its end: the cron starts syncMailbox for an     *)
(* owner who is not SYNCING, every step of the invocation is taken in the    *)
(* end, and any await may reject: one inside the try block, and then the     *)
(* record store writes of the catch block as well.                           *)

SchedSizes == {0, 2, THREADS_PER_PAGE + 2}

InitSched ==
    /\ InitStore
    /\ \E n \in SchedSizes :
          mailbox = [hidden |-> 0, threads |-> n, malformed |-> FALSE, relabelled |-> FALSE]

\* GET /api/cron/sync picks the owner only when syncStatus is not SYNCING.
CronStarts ==
    /\ used.calls < MaxSyncs
    /\ user.syncStatus # "SYNCING"
    /\ MailboxCreate(1, "PARTIAL")

\* completeSyncJob("FAILED", ...) or db.user.update inside syncMailbox's catch
\* rejects: the rejection leaves syncMailbox, the rest of the catch is skipped.
MailboxCatchThrows(i) ==
    /\ inv[i].kind = "syncMailbox"
    /\ inv[i].pc \in {"catch", "userFailed"}
    /\ Throw(i, "database", inv[i].syncJobId)
    /\ UNCHANGED <<db, syncJob, user, mailbox, returns, used, bulk,
                 progressCalls, ui>>

\* The steps the runtime takes for a started syncMailbox, the batch aside.
MailboxRuns ==
    \/ MailboxUserSyncing(1)
    \/ MailboxProgress1(1)
    \/ MailboxSyncLabels(1)
    \/ MailboxProgress3(1)
    \/ SyncThreadsPage(1, mailbox.threads)
    \/ SyncThreadsProgress(1)
    \/ MailboxComplete(1)
    \/ MailboxUserCompleted(1)
    \/ MailboxCatchComplete(1)
    \/ MailboxCatchUser(1)

NextSched ==
    \/ CronStarts
    \/ MailboxRuns
    \/ SyncThreadsBatch(1, {})
    \/ SyncThreadsTimeout(1)
    \/ MailboxThrows(1)
    \/ SyncThreadConnectionError(1)
    \/ MailboxCatchThrows(1)

\* The batch step is enabled exactly while the invocation stands before it.
BatchPending == inv[1].kind = "syncMailbox" /\ inv[1].pc = "batch"

\* Weak fairness of the batch step, with its enabledness written out:
\* WF_vars(SyncThreadsBatch(1, {})).
BatchFair == []<>(~BatchPending) \/ []<><<SyncThreadsBatch(1, {})>>_vars

SpecSched == InitSched /\ [][NextSched]_vars /\ WF_vars(MailboxRuns) /\ BatchFair

-----------------------------------------------------------------------------
(* syncThreadsBulk request by request: one syncBatch call at a time, its     *)
(* thread fetches, attachment syncs and blob uploads launched in sub-batches *)
(* and settled one by one; the blob store accepts or rejects each upload.    *)

ATTACHMENT_BATCH_SIZE == 5    \* attachment syncs launched together
S3_BATCH_SIZE == 10           \* blob uploads launched together

FanOutSizes == {0, 2, SYNC_BATCH_SIZE + 2}

\* The blob store during a behaviour: every upload accepted, some rejected,
\* every upload rejected.
S3Modes == {"up", "flaky", "down"}

\* extractEmailContent finds html in the first message of a thread; a reply is
\* plain text.
HasHtml(m) == m.id % 10 = 1

\* S3_PATHS.MESSAGE_HTML(userId, message.id), S3_PATHS.ATTACHMENT(...)
HtmlKey(m) == <<"html", m.id>>
AttachmentKey(part) == <<"attachment", part.attachmentId>>

\* uploadToS3(key, ...) rejects.
S3Rejects(mode, key) ==
    \/ mode = "down"
    \/ mode = "flaky" /\ (key[2] \div 10) % 2 = 1

\* s3UploadTasks of the prepare loop: one task per prepared message with html.
S3UploadTasks(ms) ==
    LET withHtml == SelectSeq(ms, HasHtml)
    IN  [k \in 1..Len(withHtml) |-> HtmlKey(withHtml[k])]

IdleFanOut ==
    [phase |-> "idle", s3 |-> "up", hydration |-> 0, failed |-> {}, base |-> 0,
     validThreads |-> <<>>, createdThreads |-> <<>>,
     attachmentsToProcess |-> <<>>, s3UploadTasks |-> <<>>,
     i |-> 0, syncing |-> {}, uploading |-> {}, logged |-> {}, uploaded |-> {}]

InitFanOut ==
    /\ db = EmptyDb
    /\ syncJob = <<>>
    /\ user = [syncStatus |-> "IDLE", lastSyncedAt |-> 0]
    /\ inv = [i \in Inv |-> IdleInv]
    /\ returns = <<>>
    /\ used = [calls |-> 0, faults |-> 0]
    /\ \E mode \in S3Modes : bulk = [IdleFanOut EXCEPT !.s3 = mode]
    /\ progressCalls = <<>>
    /\ ui = IdleUi
    /\ \E n \in FanOutSizes :
          mailbox = [hidden |-> 0, threads |-> n, malformed |-> FALSE, relabelled |-> FALSE]

\* The thread fetches that may fail in one batch: none, the first, or every
\* thread that has lost its messages since it was listed.
FanOutFailures(items) ==
    FetchFailures(items)
    \cup {{items[k] : k \in {n \in DOMAIN items : MessagesOf(items[n]) = <<>>}}}

\* Step 1: threadItems.map launches one threads.get per listed thread.
HydrationLaunch(failed) ==
    /\ inv[1].kind = "syncBatch" /\ inv[1].pc = "bulk"
    /\ bulk.phase \in {"idle", "returned"}
    /\ bulk' = [IdleFanOut EXCEPT !.phase = "hydrate", !.s3 = bulk.s3,
                                  !.hydration = Len(inv[1].threads.items),
                                  !.failed = failed,
                                  !.base = inv[1].syncJob.processedItems]
    /\ UNCHANGED <<db, syncJob, user, mailbox, inv, returns, used, progressCalls, ui>>

\* One threads.get settles: with the thread, or caught and turned into null.
HydrationSettles ==
    /\ bulk.phase = "hydrate" /\ bulk.hydration > 0
    /\ bulk' = [bulk EXCEPT !.hydration = @ - 1]
    /\ UNCHANGED <<db, syncJob, user, mailbox, inv, returns, used, progressCalls, ui>>

\* Promise.all(threadPromises) is over: steps 2 and 3, the prepare loop, the
\* thread upserts and the message insert.
HydrationAwaited ==
    /\ bulk.phase = "hydrate" /\ bulk.hydration = 0
    /\ LET validThreads == ValidThreads(inv[1].threads.items, bulk.failed)
           messagesToCreate == MessagesToCreate(ThreadsToCreate(validThreads))
       IN  IF PrepareThrows(validThreads)
           THEN /\ Throw(1, "malformedMessage", inv[1].syncJob.id)
                /\ bulk' = [bulk EXCEPT !.phase = "threw"]
                /\ UNCHANGED db
           ELSE \E threads \in {BulkThreads(db, validThreads)} :
                   /\ db' = BulkMessages(threads.db, validThreads, threads.createdThreads)
                   /\ bulk' = [bulk EXCEPT
                         !.phase = "attachments",
                         !.validThreads = validThreads,
                         !.createdThreads = threads.createdThreads,
                         !.attachmentsToProcess = AttachmentsToProcess(messagesToCreate),
                         !.s3UploadTasks = S3UploadTasks(messagesToCreate)]
                   /\ UNCHANGED inv
    /\ UNCHANGED <<syncJob, user, mailbox, returns, used, progressCalls, ui>>

\* messageIdMap.get(gmailMessageId); Undefined when the message has no row.
MessageIdOf(gmailMessageId) ==
    LET hit == RowsWhere(db.message, LAMBDA r : r.gmailMessageId = gmailMessageId)
    IN  IF hit = {} THEN Undefined ELSE db.message[CHOOSE k \in hit : TRUE].id

\* Every attachment left, launched at once.
AttachmentBatchUnsliced(todo, i) == i + 1 .. Len(todo)

\* attachmentsToProcess.slice(i, i + ATTACHMENT_BATCH_SIZE), as indexes.
AttachmentBatch(todo, i) == i + 1 .. Min(i + ATTACHMENT_BATCH_SIZE, Len(todo))

\* s3UploadTasks.slice(i, i + S3_BATCH_SIZE), as indexes.
S3Batch(tasks, i) == i + 1 .. Min(i + S3_BATCH_SIZE, Len(tasks))

\* Step 4: the next sub-batch of attachments; syncAttachment is called for the
\* items whose message has a row.
AttachmentsLaunch ==
    /\ bulk.phase = "attachments" /\ bulk.syncing = {}
    /\ bulk.i < Len(bulk.attachmentsToProcess)
    /\ bulk' = [bulk EXCEPT
          !.syncing = {k \in AttachmentBatch(bulk.attachmentsToProcess, bulk.i) :
                          MessageIdOf(bulk.attachmentsToProcess[k].gmailMessageId)
                              # Undefined},
          !.i = @ + ATTACHMENT_BATCH_SIZE]
    /\ UNCHANGED <<db, syncJob, user, mailbox, inv, returns, used, progressCalls, ui>>

\* A rejected upload is logged, and nothing is launched after it.
S3CaughtAbandons(b, key) ==
    [b EXCEPT !.logged = @ \cup {key},
              !.i = Len(b.attachmentsToProcess) + Len(b.s3UploadTasks)]

\* console.error in the catch around syncAttachment and in the .catch of an
\* upload task.
S3Caught(b, key) == [b EXCEPT !.logged = @ \cup {key}]

\* One syncAttachment settles: existence check, download, upload, create.
AttachmentSettles(k) ==
    /\ bulk.phase = "attachments" /\ k \in bulk.syncing
    /\ LET item == bulk.attachmentsToProcess[k]
           messageId == MessageIdOf(item.gmailMessageId)
           key == AttachmentKey(item.attachment)
           settled == [bulk EXCEPT !.syncing = @ \ {k}]
       IN  IF \/ AttachmentRows(messageId, item.attachment.attachmentId) # {}
              \/ ~item.attachment.hasData
           THEN bulk' = settled /\ UNCHANGED db
           ELSE IF S3Rejects(bulk.s3, key)
           THEN bulk' = S3Caught(settled, key) /\ UNCHANGED db
           ELSE /\ bulk' = [settled EXCEPT !.uploaded = @ \cup {key}]
                /\ db' = [db EXCEPT !.attachment =
                             Append(@, [messageId |-> messageId,
                                        gmailAttachmentId |-> item.attachment.attachmentId])]
    /\ UNCHANGED <<syncJob, user, mailbox, inv, returns, used, progressCalls, ui>>

\* Step 5 once the attachment loop is over: syncThreadLabelsBulk.
AttachmentsAwaited ==
    /\ bulk.phase = "attachments" /\ bulk.syncing = {}
    /\ bulk.i >= Len(bulk.attachmentsToProcess)
    /\ db' = SyncThreadLabelsBulk(db, bulk.validThreads, bulk.createdThreads)
    /\ bulk' = [bulk EXCEPT !.phase = "uploads", !.i = 0]
    /\ UNCHANGED <<syncJob, user, mailbox, inv, returns, used, progressCalls, ui>>

\* Step 6: the next sub-batch of upload tasks.
UploadsLaunch ==
    /\ bulk.phase = "uploads" /\ bulk.uploading = {}
    /\ bulk.i < Len(bulk.s3UploadTasks)
    /\ bulk' = [bulk EXCEPT !.uploading = S3Batch(bulk.s3UploadTasks, bulk.i),
                            !.i = @ + S3_BATCH_SIZE]
    /\ UNCHANGED <<db, syncJob, user, mailbox, inv, returns, used, progressCalls, ui>>

\* One upload settles; the uploads of a sub-batch write different keys, the
\* order in which they settle leaves no trace.
UploadSettles ==
    /\ bulk.phase = "uploads" /\ bulk.uploading # {}
    /\ LET k == CHOOSE k \in bulk.uploading : \A other \in bulk.uploading : k <= other
           key == bulk.s3UploadTasks[k]
           settled == [bulk EXCEPT !.uploading = @ \ {k}]
       IN  bulk' = IF S3Rejects(bulk.s3, key) THEN S3Caught(settled, key)
                   ELSE [settled EXCEPT !.uploaded = @ \cup {key}]
    /\ UNCHANGED <<db, syncJob, user, mailbox, inv, returns, used, progressCalls, ui>>

\* return { processedCount: validThreads.length }
UploadsAwaited ==
    /\ bulk.phase = "uploads" /\ bulk.uploading = {}
    /\ bulk.i >= Len(bulk.s3UploadTasks)
    /\ bulk' = [bulk EXCEPT !.phase = "returned"]
    /\ inv' = [inv EXCEPT ![1].pc = "update",
                          ![1].processedInBatch = Len(bulk.validThreads)]
    /\ UNCHANGED <<db, syncJob, user, mailbox, returns, used, progressCalls, ui>>

NextFanOut ==
    \/ MayCall /\ BatchFindFirst(1)
    \/ BatchCreate(1)
    \/ BatchSyncLabels(1)
    \/ BatchList(1, mailbox.threads)
    \/ BatchCompleteEmpty(1)
    \/ BatchUserEmpty(1)
    \/ \E failed \in FanOutFailures(inv[1].threads.items) : HydrationLaunch(failed)
    \/ HydrationSettles
    \/ HydrationAwaited
    \/ AttachmentsLaunch
    \/ \E k \in bulk.syncing : AttachmentSettles(k)
    \/ AttachmentsAwaited
    \/ UploadsLaunch
    \/ UploadSettles
    \/ UploadsAwaited
    \/ BatchUpdate(1)
    \/ BatchComplete(1)
    \/ BatchUser(1)

SpecFanOut == InitFanOut /\ [][NextFanOut]_vars

-----------------------------------------------------------------------------
(* extractEmailContent on messages whose payload is a body at the root or a  *)
(* tree of parts two levels deep; the same message is extracted repeatedly.  *)

MaxParts == 2       \* parts of the payload, sub-parts of a part
MaxExtracts == 2    \* calls of extractEmailContent on one message

\* No attachmentId, no data: the field is undefined.
NoData == ""

\* Buffer.from(data, "base64").toString("utf-8")
Base64Decode(data) ==
    CASE data = "PHA+MTwvcD4=" -> "<p>1</p>"
      [] data = "PHA+MjwvcD4=" -> "<p>2</p>"
      [] data = "b25l"         -> "one"
      [] data = "dHdv"         -> "two"
      [] OTHER                 -> NoData

\* The body data of the html and plain parts under the n-th part of the payload.
HtmlData(n) == IF n % 2 = 1 THEN "PHA+MTwvcD4=" ELSE "PHA+MjwvcD4="
PlainData(n) == IF n % 2 = 1 THEN "b25l" ELSE "dHdv"

PartKinds == {"attachment", "html", "plain", "empty", "named"}
ContainerKinds == PartKinds \cup {"multipart"}

\* A part of the mailbox API: an attachment stub, a text/html or text/plain
\* body, a text/html part without data, a named text part that carries its data
\* inline, a multipart container. id tells the parts of one message apart.
PartOf(kind, id, n, parts) ==
    [filename |-> CASE kind = "attachment" -> "report.pdf"
                    [] kind = "named"      -> "note.txt"
                    [] OTHER               -> "",
     mimeType |-> CASE kind = "attachment"         -> "application/pdf"
                    [] kind \in {"html", "empty"}  -> "text/html"
                    [] kind \in {"plain", "named"} -> "text/plain"
                    [] OTHER                       -> "multipart/mixed",
     body |-> [attachmentId |-> IF kind = "attachment" THEN id ELSE Null,
               size |-> id,
               data |-> CASE kind = "html"                -> HtmlData(n)
                          [] kind \in {"plain", "named"}  -> PlainData(n)
                          [] OTHER                        -> NoData],
     parts |-> parts]

\* The shape of a part with sub-parts: its kind and the kinds of its sub-parts.
PartShapes ==
    [kind : ContainerKinds,
     parts : UNION {[1..m -> PartKinds] : m \in 0..MaxParts}]

\* The n-th part of the payload, of shape shape.
PartOfShape(shape, n) ==
    PartOf(shape.kind, 10 * n, n,
           [j \in DOMAIN shape.parts |-> PartOf(shape.parts[j], 10 * n + j, n, <<>>)])

\* Messages with payload.parts, an empty array included.
MultipartMessages ==
    {[payload |-> [mimeType |-> "multipart/mixed", body |-> [data |-> NoData],
                   hasParts |-> TRUE,
                   parts |-> [n \in DOMAIN shapes |-> PartOfShape(shapes[n], n)]]] :
        shapes \in UNION {[1..m -> PartShapes] : m \in 0..MaxParts}}

\* Messages without payload.parts: the body is at the root.
SimpleMessages ==
    {[payload |-> [mimeType |-> mimeType, body |-> [data |-> data],
                   hasParts |-> FALSE, parts |-> <<>>]] :
        mimeType \in {"text/html", "text/plain", "image/png"},
        data \in {NoData, HtmlData(1), PlainData(1)}}

\* html and text: null is the empty tuple, a string s is <<s>>.
EmptyResult == [html |-> <<>>, text |-> <<>>, attachments |-> <<>>]

\* part.filename && part.body?.attachmentId
IsAttachmentPart(part) == part.filename # "" /\ part.body.attachmentId # Null

AttachmentDescriptor(part) ==
    [filename |-> part.filename, mimeType |-> part.mimeType,
     attachmentId |-> part.body.attachmentId, size |-> part.body.size]

\* The content branch of processPayloadPart.
WithContent(result, part) ==
    IF part.mimeType = "text/html" /\ part.body.data # NoData
    THEN [result EXCEPT !.html = <<Base64Decode(part.body.data)>>]
    ELSE IF part.mimeType = "text/plain" /\ part.body.data # NoData
    THEN [result EXCEPT !.text = <<Base64Decode(part.body.data)>>]
    ELSE result

RECURSIVE ProcessPayloadPartDescends(_, _)
RECURSIVE ProcessPayloadPart(_, _)
RECURSIVE ProcessParts(_, _)

\* An attachment part is recorded and its sub-parts are processed as well.
ProcessPayloadPartDescends(result, part) ==
    IF IsAttachmentPart(part)
    THEN ProcessParts([result EXCEPT !.attachments = Append(@, AttachmentDescriptor(part))],
                      part.parts)
    ELSE ProcessParts(WithContent(result, part), part.parts)

\* processPayloadPart(part), writing to the result of the call.
ProcessPayloadPart(result, part) ==
    IF IsAttachmentPart(part)
    THEN [result EXCEPT !.attachments = Append(@, AttachmentDescriptor(part))]
    ELSE ProcessParts(WithContent(result, part), part.parts)

\* for (const subPart of parts) processPayloadPart(subPart)
ProcessParts(result, parts) ==
    IF parts = <<>> THEN result
    ELSE ProcessParts(ProcessPayloadPart(result, Head(parts)), Tail(parts))

ExtractEmailContent(message) ==
    IF message.payload.hasParts
    THEN ProcessParts(EmptyResult, message.payload.parts)
    ELSE IF message.payload.body.data # NoData
    THEN IF message.payload.mimeType = "text/html"
         THEN [EmptyResult EXCEPT !.html = <<Base64Decode(message.payload.body.data)>>]
         ELSE IF message.payload.mimeType = "text/plain"
         THEN [EmptyResult EXCEPT !.text = <<Base64Decode(message.payload.body.data)>>]
         ELSE EmptyResult
    ELSE EmptyResult

InitExtract ==
    /\ db = EmptyDb
    /\ syncJob = <<>>
    /\ user = [syncStatus |-> "IDLE", lastSyncedAt |-> 0]
    /\ inv = [i \in Inv |-> IdleInv]
    /\ returns = <<>>
    /\ used = [calls |-> 0, faults |-> 0]
    /\ \E message \in MultipartMessages \cup SimpleMessages :
          bulk = [message |-> message, results |-> <<>>]
    /\ progressCalls = <<>>
    /\ ui = IdleUi
    /\ mailbox = [hidden |-> 0, threads |-> 0, malformed |-> FALSE, relabelled |-> FALSE]

\* extractEmailContent(message) is called and returns.
ExtractCall ==
    /\ Len(bulk.results) < MaxExtracts
    /\ bulk' = [bulk EXCEPT !.results = Append(@, ExtractEmailContent(bulk.message))]
    /\ UNCHANGED <<db, syncJob, user, mailbox, inv, returns, used, progressCalls, ui>>

NextExtract == ExtractCall

SpecExtract == InitExtract /\ [][NextExtract]_vars

-----------------------------------------------------------------------------
(* updateSyncProgress called again and again on one job, the processed count *)
(* never going down, the total estimate arbitrary.                           *)

MaxProcessed == 4        \* the largest processedItems argument
MaxTotal == 5            \* the largest totalItems argument
MaxProgressCalls == 3    \* calls in one behaviour

InitProgress ==
    /\ InitStore
    /\ mailbox = [hidden |-> 0, threads |-> 0, malformed |-> FALSE, relabelled |-> FALSE]

\* syncMailbox's db.syncJob.create, through which this.syncJobId is set.
ProgressJobCreate ==
    /\ syncJob = <<>>
    /\ syncJob' = <<NewJob(1, "FULL")>>
    /\ UNCHANGED <<db, user, mailbox, inv, returns, used, bulk, progressCalls, ui>>

LastProcessed ==
    IF progressCalls = <<>> THEN 0 ELSE progressCalls[Len(progressCalls)].processedItems

\* One call updateSyncProgress(processedItems, totalItems); progressCalls keeps
\* the arguments and the progress the job row holds after the call.
UpdateSyncProgressCall ==
    /\ syncJob # <<>>
    /\ Len(progressCalls) < MaxProgressCalls
    /\ \E processedItems \in LastProcessed..MaxProcessed, totalItems \in 0..MaxTotal :
          /\ syncJob' = UpdateSyncProgress(syncJob, 1, processedItems, totalItems)
          /\ progressCalls' = Append(progressCalls,
                                     [processedItems |-> processedItems,
                                      totalItems |-> totalItems,
                                      progress |-> syncJob'[1].progress])
    /\ UNCHANGED <<db, user, mailbox, inv, returns, used, bulk, ui>>

NextProgress == ProgressJobCreate \/ UpdateSyncProgressCall

SpecProgress == InitProgress /\ [][NextProgress]_vars

-----------------------------------------------------------------------------
(* Claims *)

NoDuplicateRows(d) ==
    /\ \A i, j \in 1..Len(d.thread) :
          d.thread[i].gmailThreadId = d.thread[j].gmailThreadId => i = j
    /\ \A i, j \in 1..Len(d.message) :
          d.message[i].gmailMessageId = d.message[j].gmailMessageId => i = j
    /\ \A i, j \in 1..Len(d.attachment) :
          (/\ d.attachment[i].messageId = d.attachment[j].messageId
           /\ d.attachment[i].gmailAttachmentId = d.attachment[j].gmailAttachmentId) => i = j

\* C6: running syncThreadsBulk a second time over the same thread items, with the
\* same answers of the mailbox API, leaves the Thread, Message and Attachment row
\* counts of the first run, and no table ever holds two rows for one
\* (owner, external thread id), external message id or (message, attachment id).
C6_IdempotentResync ==
    /\ bulk.again => Counts(db) = bulk.counts
    /\ NoDuplicateRows(db)

\* A re-run over items whose first run stored a thread, a message and an attachment.
C6_Witness ==
    /\ bulk.again
    /\ \E i \in DOMAIN bulk.items :
       \E m \in 1..Len(db.message) :
       \E a \in 1..Len(db.attachment) :
          /\ db.message[m].gmailThreadId = bulk.items[i]
          /\ db.attachment[a].messageId = db.message[m].id

\* C1: in every reachable state, whatever the interleaving of syncBatch and
\* syncMailbox invocations, the owner has at most one SyncJob whose status is
\* RUNNING.
C1_AtMostOneRunningJob == Cardinality(RunningJobs) <= 1

\* C2: when the deadline of a scheduled sync is exceeded while a further page
\* exists, syncMailbox ends in a controlled pause: its job is still RUNNING (not
\* COMPLETED, not FAILED) and the job's nextPageToken holds the cursor the run
\* stopped at.
C2_DeadlinePausesJob ==
    \A i \in Inv :
        (inv[i].expired /\ inv[i].outcome = "returned") =>
            /\ syncJob[inv[i].job].status = "RUNNING"
            /\ syncJob[inv[i].job].nextPageToken = inv[i].cursor

\* C3: a syncBatch call returns completed = true only if the page it listed was
\* the last one (the API reported no nextPageToken); a page that is empty but
\* not final never yields completed = true.
C3_CompletedOnlyWhenExhausted ==
    \A i \in Inv :
        (inv[i].kind = "syncBatch" /\ inv[i].outcome = "returned"
                                   /\ inv[i].result.completed) =>
            inv[i].next = Null

JobLevelErrors == {"syncLabels", "list", "page", "update", "progress"}

\* C4: at the step at which a job-level error leaves syncMailbox or syncBatch,
\* the job of the invocation is FAILED with the error message captured and the
\* owner's syncStatus is FAILED; the job is not left RUNNING.
C4_JobLevelErrorFailsJob ==
    [][\A i \in Inv :
          (inv[i].outcome # "threw" /\ inv'[i].outcome = "threw"
                                    /\ inv'[i].error \in JobLevelErrors) =>
              /\ syncJob'[inv'[i].job].status = "FAILED"
              /\ syncJob'[inv'[i].job].error # ""
              /\ user'.syncStatus = "FAILED"]_vars

ItemLevelErrors == {"threadUpsert", "connection", "malformedMessage"}

\* C5: no invocation of syncBatch or syncMailbox ends by throwing an item-level
\* error (a thread fetch or a thread upsert that failed): such an error is caught
\* and the item skipped.
C5_ItemErrorNeverFailsBatch ==
    \A i \in Inv : ~(inv[i].outcome = "threw" /\ inv[i].error \in ItemLevelErrors)

\* C7: a syncBatch call that resumes a paused job from its saved cursor and
\* returns completed = true returns processedItems equal to totalItems.
C7_ResumeEndsWithProcessedEqualTotal ==
    \A i \in Inv :
        (inv[i].kind = "syncBatch" /\ inv[i].cursor # Null
            /\ inv[i].outcome = "returned" /\ inv[i].result.completed) =>
            inv[i].result.processedItems = inv[i].result.totalItems

CeilDiv(n, b) == (n + b - 1) \div b

C9_ProgressNeverDecreases ==
    \A k \in 1..Len(progressCalls) :
        /\ progressCalls[k].progress \in 0..100
        /\ k > 1 => progressCalls[k].progress >= progressCalls[k - 1].progress

\* C9, amended: over updateSyncProgress calls with non-decreasing processed
\* counts and arbitrary total estimates, the stored progress is always within
\* 0..100, and it does not decrease across a call whose total estimate is not
\* larger than that of the call before.
C9_ProgressBoundedAndMonotoneForSteadyTotal ==
    /\ \A k \in 1..Len(progressCalls) :
          /\ progressCalls[k].progress \in 0..100
          /\ (k > 1 /\ progressCalls[k].totalItems <= progressCalls[k - 1].totalItems)
                => progressCalls[k].progress >= progressCalls[k - 1].progress
    /\ progressCalls # <<>> =>
          syncJob[1].progress = progressCalls[Len(progressCalls)].progress

\* Two calls with the same total estimate, the second with more processed than
\* the estimate: the progress went up and is capped.
C9_Witness ==
    /\ Len(progressCalls) >= 2
    /\ LET k == Len(progressCalls)
       IN  /\ progressCalls[k].totalItems = progressCalls[k - 1].totalItems
           /\ progressCalls[k].totalItems > 0
           /\ progressCalls[k].processedItems > progressCalls[k].totalItems
           /\ progressCalls[k - 1].progress < progressCalls[k].progress
           /\ syncJob[1].progress = 100

\* C10: the processedItems a job row holds never decreases from one write to the
\* next.
C10_ProcessedItemsNeverDecreases ==
    [][\A j \in 1..Len(syncJob) :
          syncJob'[j].processedItems >= syncJob[j].processedItems]_vars

\* C11: the totalItems a job row holds never decreases from one write to the
\* next, whichever of syncBatch and updateSyncProgress writes it and whatever
\* size estimate the mailbox API reports.
C11_TotalItemsNeverDecreases ==
    [][\A j \in 1..Len(syncJob) :
          syncJob'[j].totalItems >= syncJob[j].totalItems]_vars

ThreadRowIds(d) == 1..Len(d.thread)
MessageRowIds(d) == 1..Len(d.message)

\* C12: every Message row references a Thread row and every Attachment row a
\* Message row of the store; a step that adds Message rows adds them for Thread
\* rows that were there before the step, and a step that adds Attachment rows
\* adds them for Message rows that were there before the step.
C12_ReferentialIntegrity ==
    /\ [](/\ \A m \in MessageRowIds(db) : db.message[m].threadId \in ThreadRowIds(db)
          /\ \A a \in 1..Len(db.attachment) :
                db.attachment[a].messageId \in MessageRowIds(db))
    /\ [][/\ \A m \in MessageRowIds(db') \ MessageRowIds(db) :
                db'.message[m].threadId \in ThreadRowIds(db)
          /\ \A a \in (1..Len(db'.attachment)) \ (1..Len(db.attachment)) :
                db'.attachment[a].messageId \in MessageRowIds(db)]_vars

\* A batch whose message insert was given a row without threadId has ended, and
\* the store holds threads, messages and attachments of earlier batches.
C12_Witness ==
    /\ inv[1].pc = "done"
    /\ \E k \in 1..Len(inv[1].validThreads) :
          /\ MessagesOf(inv[1].validThreads[k]) # <<>>
          /\ inv[1].validThreads[k] \notin
                DOMAIN ThreadIdMap(inv[1].validThreads, inv[1].createdThreads)
    /\ db.message # <<>>
    /\ db.attachment # <<>>

\* The label ids associated with thread row id.
LabelsOfThread(d, id) == {r.labelId : r \in {x \in d.labelThread : x.threadId = id}}

\* C13: once the label reconciliation of a batch is over, every thread of the
\* batch that has messages carries exactly the label ids of its own last message
\* that are known Labels of the owner.
C13_LabelRebuildConsistency ==
    (inv[1].kind = "syncThreadsBulk" /\ inv[1].pc = "done") =>
        \A k \in 1..Len(inv[1].validThreads) :
            LET t == inv[1].validThreads[k]
            IN  MessagesOf(t) # <<>> =>
                    \A i \in 1..Len(db.thread) :
                        db.thread[i].gmailThreadId = t =>
                            LabelsOfThread(db, db.thread[i].id)
                                = LastLabelIds(t) \cap db.label

\* C14: a job's nextPageToken is non-null only while the job is RUNNING: no
\* COMPLETED or FAILED job carries a cursor.
C14_NoCursorOnFinishedJob ==
    \A j \in 1..Len(syncJob) :
        syncJob[j].status \in {"COMPLETED", "FAILED"} => syncJob[j].nextPageToken = Null

\* C15: COMPLETED and FAILED are terminal: no step of any invocation changes
\* the status of a job that is COMPLETED or FAILED.
C15_FinishedJobKeepsStatus ==
    [][\A j \in 1..Len(syncJob) :
          syncJob[j].status \in {"COMPLETED", "FAILED"} =>
              syncJob'[j].status = syncJob[j].status]_vars

\* Invocation i of syncBatch holds a listed page that it is about to put, or has
\* put, through syncThreadsBulk, its counters and cursor not yet written.
InBatchPipeline(i) == inv[i].kind = "syncBatch" /\ inv[i].pc \in {"bulk", "update"}

\* C16: two syncBatch invocations of the owner are never in the batch pipeline
\* at the same time; in particular they never hold the same page of the same
\* job, read from the same cursor.
C16_BatchPipelineMutex ==
    \A a, b \in Inv : a # b => ~(InBatchPipeline(a) /\ InBatchPipeline(b))

\* C17: within one Sidebar at most one handleSync loop is active at any time,
\* the 2-second wait between batches and the time after the 30-second timer
\* included.
C17_OneHandleSyncLoop ==
    \A a, b \in Inv : a # b => (ui.loop[a].pc = "idle" \/ ui.loop[b].pc = "idle")

\* The one-time label sync of job j has not been performed: the syncBatch
\* invocation that created j has not finished syncLabels, or syncLabels threw.
LabelSyncPending(j) ==
    \E a \in Inv :
        /\ inv[a].kind = "syncBatch"
        /\ \/ inv[a].pc = "syncLabels" /\ inv[a].syncJob.id = j
           \/ inv[a].outcome = "threw" /\ inv[a].error = "syncLabels" /\ inv[a].job = j

\* A syncBatch invocation has put threads of job j through syncThreadsBulk.
ThreadsProcessedFor(j) ==
    \E b \in Inv :
        /\ inv[b].kind = "syncBatch"
        /\ inv[b].syncJobId = j
        /\ inv[b].pc \in {"update", "complete", "user"}

\* C18: the find-or-create step of syncBatch returns the owner's RUNNING job if
\* there is one, and otherwise creates a job whose one-time label sync is
\* performed before any thread of that job is processed.
C18_LabelSyncBeforeThreads ==
    \A j \in 1..Len(syncJob) : ~(LabelSyncPending(j) /\ ThreadsProcessedFor(j))

\* C19: a Message row that exists for an external message id is left untouched
\* by every later sync pass that meets the message again, in batch mode and in
\* continuous mode alike: no step changes any field of an existing row.
C19_ExistingMessageRowsUntouched ==
    [][\A k \in 1..Len(db.message) :
          /\ k <= Len(db'.message)
          /\ db'.message[k] = db.message[k]]_vars

\* C20: an Attachment row is created at most once per (message, external
\* attachment id), and the bytes of an attachment are downloaded only when no
\* such row exists, under any interleaving of invocations that process the same
\* message.
C20_AttachmentCreatedOnce ==
    /\ [](\A a, b \in 1..Len(db.attachment) :
             (/\ db.attachment[a].messageId = db.attachment[b].messageId
              /\ db.attachment[a].gmailAttachmentId = db.attachment[b].gmailAttachmentId)
             => a = b)
    /\ [][\A i \in Inv :
            (inv[i].pc = "download" /\ inv'[i].pc # "download")
            => AttachmentRows(AttachMessageId(i),
                              AttachTodo(i)[inv[i].i].attachment.attachmentId) = {}]_vars

\* Threads of a listing that the pipeline stores once fetched, and that have no
\* Thread row in table tbl.
AbsentThreads(tbl, ts) ==
    {t \in ts : /\ Len(MessagesOf(t)) > 0
                /\ RowsWhere(tbl, LAMBDA r : r.gmailThreadId = t) = {}}

\* The threads listed before the cursor a syncBatch invocation resumes from.
ThreadsBehindCursor(i) == 1..(inv[i].syncJob.nextPageToken - mailbox.hidden)

\* C21: when the fetch of exactly one thread of a batch of n fails, the batch
\* reports n-1 processed items, and the failed thread, absent from the record
\* store, is fetched again by the next run: no run lists a page that leaves an
\* absent thread behind the job's cursor.
C21_FailedThreadRetriedNextRun ==
    [][\A i \in Inv :
          /\ (/\ inv[i].pc = "bulk" /\ inv'[i].pc = "update"
              /\ Cardinality(AbsentThreads(db'.thread,
                     {inv[i].threads.items[k] : k \in DOMAIN inv[i].threads.items})) = 1)
             => inv'[i].processedInBatch = Len(inv[i].threads.items) - 1
          /\ (/\ inv[i].kind = "syncBatch" /\ inv[i].pc = "list"
              /\ inv'[i].pc \in {"bulk", "completeEmpty"})
             => AbsentThreads(db.thread, ThreadsBehindCursor(i))
                   \subseteq {inv'[i].threads.items[k] : k \in DOMAIN inv'[i].threads.items}]_vars

\* C22: the owner's lastSyncedAt is written only by an invocation that has
\* completed its job as COMPLETED after the mailbox API reported no further page
\* cursor; no failed, paused or still running run changes it.
C22_LastSyncedAtOnlyOnExhaustion ==
    [][user'.lastSyncedAt # user.lastSyncedAt =>
          \E i \in Inv :
              /\ inv[i].pc \in {"user", "userEmpty", "userCompleted"}
              /\ inv'[i].pc = "done"
              /\ syncJob[inv[i].syncJobId].status = "COMPLETED"
              /\ inv[i].threads.nextPageToken = Null
              /\ ~inv[i].expired]_vars

\* C23: once a batch is through the pipeline, the Thread row of every thread of
\* the batch that has messages carries the unread, starred and important flags
\* of its last message's label ids, the subject of the last message, else of the
\* first, else "(no subject)", and its LabelThread rows are exactly the last
\* message's label ids that are Labels of the owner.
C23_ThreadMetadataFromLastMessage ==
    (inv[1].kind = "syncThreadsBulk" /\ inv[1].pc = "done") =>
        \A k \in 1..Len(inv[1].validThreads) :
            LET t == inv[1].validThreads[k]
                msgs == MessagesOf(t)
            IN  msgs # <<>> =>
                    \E i \in 1..Len(db.thread) :
                        /\ db.thread[i].gmailThreadId = t
                        /\ db.thread[i].unread = ("UNREAD" \in msgs[Len(msgs)].labelIds)
                        /\ db.thread[i].starred = ("STARRED" \in msgs[Len(msgs)].labelIds)
                        /\ db.thread[i].important = ("IMPORTANT" \in msgs[Len(msgs)].labelIds)
                        /\ db.thread[i].subject =
                              (IF msgs[Len(msgs)].subject # "" THEN msgs[Len(msgs)].subject
                               ELSE IF msgs[1].subject # "" THEN msgs[1].subject
                               ELSE "(no subject)")
                        /\ {r.labelId : r \in {x \in db.labelThread :
                                                   x.threadId = db.thread[i].id}}
                              = msgs[Len(msgs)].labelIds \cap db.label

\* C24: a connection error on an external call is retried before the job is
\* given up: a job is failed for a connection error only once such errors have
\* occurred more than once, never on the first occurrence.
C24_ConnectionErrorRetried ==
    [][\A j \in 1..Len(syncJob) :
          (/\ syncJob[j].status # "FAILED"
           /\ syncJob'[j].status = "FAILED"
           /\ syncJob'[j].error = "connection")
          => used.faults > 1]_vars

\* C25: the scheduled endpoints start or continue a sync, or modify a SyncJob
\* row, only for a request whose Authorization header is "Bearer " followed by
\* the configured CRON_SECRET; any other request is answered 401 and changes
\* nothing.
C25_CronEndpointsNeedSecret ==
    [][Len(returns') > Len(returns) =>
          LET response == returns'[Len(returns')]
          IN  response.authorization # <<"Bearer ", CRON_SECRET>> =>
                  /\ response.status = "401"
                  /\ UNCHANGED <<db, syncJob, user, inv>>]_vars


\* Limit the number of users processed per cron run
CRON_TAKE == 5

\* C26: the scheduled GET never starts a sync for an owner who has one in
\* progress: when its syncMailbox creates the job no RUNNING job of the owner
\* exists, whether syncMailbox or syncBatch made it; and one run of the
\* endpoint starts at most CRON_TAKE syncs.
C26_CronSkipsOwnerInSync ==
    [][(/\ Len(returns') > Len(returns)
        /\ returns'[Len(returns')].endpoint = "GET"
        /\ returns'[Len(returns')].status = "started")
        => /\ \A j \in DOMAIN syncJob : syncJob[j].status # "RUNNING"
           /\ Len(syncJob') - Len(syncJob) <= CRON_TAKE]_vars


\* C27: every COMPLETED job has progress 100, also after a syncBatch invocation
\* that read the job earlier writes its progress once another invocation has
\* completed the job.
C27_CompletedJobHasFullProgress ==
    \A j \in DOMAIN syncJob :
        syncJob[j].status = "COMPLETED" => syncJob[j].progress = 100


\* C28: in every persisted state of a job processedItems <= totalItems and
\* 0 <= progress <= 100, whatever updateSyncProgress calls, syncBatch
\* progress writes and completeSyncJob calls came before.
C28_CountersAndProgressInRange ==
    \A j \in DOMAIN syncJob :
        /\ syncJob[j].processedItems <= syncJob[j].totalItems
        /\ 0 <= syncJob[j].progress
        /\ syncJob[j].progress <= 100

\* A syncBatch invocation has written a count above the estimate of its page
\* (another invocation counted the same page before) on its last page.
C28_Witness ==
    \E i \in Inv :
        /\ inv[i].kind = "syncBatch" /\ inv[i].pc = "complete"
        /\ NewProcessedItems(i) > inv[i].threads.resultSizeEstimate
        /\ syncJob[inv[i].syncJobId].processedItems = NewProcessedItems(i)
        /\ syncJob[inv[i].syncJobId].totalItems = NewProcessedItems(i)


\* Invocation i, a syncBatch call, returns in this step.
BatchReturns(i) ==
    /\ inv[i].kind = "syncBatch" /\ inv[i].pc \notin {"idle", "done"}
    /\ inv'[i].pc = "done" /\ inv'[i].outcome = "returned"

\* The result of the ended invocation i agrees with job and owner as stored.
ResultMatchesStore(i, jobs, owner) ==
    LET result == inv'[i].result
        job == jobs[inv'[i].job]
    IN  IF result.completed
        THEN /\ job.status = "COMPLETED"
             /\ job.progress = 100
             /\ owner.syncStatus = "COMPLETED"
        ELSE /\ job.status = "RUNNING"
             /\ inv'[i].next # Null
             /\ job.nextPageToken = inv'[i].next
             /\ job.processedItems = result.processedItems
             /\ job.totalItems = result.totalItems

\* C29: whenever syncBatch returns without throwing, its result matches the
\* persisted state: with completed false the job is RUNNING, holds the
\* non-null cursor the mailbox API returned for the page and the returned
\* processedItems and totalItems; with completed true the job is COMPLETED
\* with progress 100 and the owner's syncStatus is COMPLETED.
C29_ResultMatchesPersistedState ==
    [][\A i \in Inv : BatchReturns(i) => ResultMatchesStore(i, syncJob', user')]_vars


\* Invocation i, a syncBatch call under way, takes this step.
BatchSteps(i) ==
    /\ inv[i].kind = "syncBatch" /\ inv[i].pc \notin {"idle", "done"}
    /\ inv'[i] # inv[i]

\* syncThreadsBulk has finished on the page of invocation i: for some outcome
\* of the fetches the threads that answered are counted, and those of them
\* that have messages have their Thread row.
PageFinished(i) ==
    \E failed \in FetchFailures(inv[i].threads.items) :
        LET validThreads == ValidThreads(inv[i].threads.items, failed)
            toCreate == ThreadsToCreate(validThreads)
        IN  /\ inv[i].processedInBatch = Len(validThreads)
            /\ \A k \in DOMAIN toCreate :
                   RowsWhere(db.thread, LAMBDA r : r.gmailThreadId = toCreate[k]) # {}

\* Cursor and counters of the jobs are what they were before the step.
CursorAndCountersKept ==
    \A j \in DOMAIN syncJob :
        /\ syncJob'[j].nextPageToken = syncJob[j].nextPageToken
        /\ syncJob'[j].processedItems = syncJob[j].processedItems
        /\ syncJob'[j].totalItems = syncJob[j].totalItems

\* C30: no page is skipped on a crash: a syncBatch invocation advances the
\* job's cursor and processedItems in one write, made only after the thread,
\* message, attachment, label and blob steps of the page have finished; every
\* other step of the invocation, and its death at any earlier point, leaves
\* the job with the cursor of the unfinished page and counters without the page.
C30_CursorAdvancesAfterPipeline ==
    [][\A i \in Inv : BatchSteps(i) =>
          IF inv[i].pc = "update" /\ inv'[i].outcome # "threw"
          THEN /\ PageFinished(i)
               /\ syncJob'[inv[i].syncJobId].nextPageToken = inv[i].threads.nextPageToken
               /\ syncJob'[inv[i].syncJobId].processedItems =
                      inv[i].syncJob.processedItems + inv[i].processedInBatch
          ELSE CursorAndCountersKept]_vars

\* An invocation died in the thread upserts of its first page with some rows
\* written, and the job holds the cursor it was read with and counts nothing.
C30_Witness ==
    \E i \in Inv :
        /\ inv[i].pc = "done" /\ inv[i].outcome = "threw"
        /\ inv[i].error = "threadUpsert"
        /\ Len(db.thread) > 0
        /\ syncJob[inv[i].job].nextPageToken = inv[i].cursor
        /\ syncJob[inv[i].job].processedItems = 0


CountedThreads ==
    LET validThreads == ValidThreads(bulk.items, bulk.failed)
    IN  IF PrepareThrows(validThreads) THEN {}
        ELSE {validThreads[k] : k \in DOMAIN validThreads}

\* C32: every thread a batch counts as processed has all its valid messages
\* (those with an id and headers) in the record store when the batch returns;
\* a failed bulk message insert does not leave a counted batch without its
\* messages.
C32_CountedThreadsHaveTheirMessages ==
    bulk.runs > 0 =>
        \A t \in CountedThreads :
            \A k \in DOMAIN MessagesOf(t) :
                ValidMessage(MessagesOf(t)[k]) =>
                    \E m \in DOMAIN db.message :
                        db.message[m].gmailMessageId = MessagesOf(t)[k].id


\* C33: label associations of threads are rebuilt only after a label sync has
\* succeeded: also when syncLabels threw right after syncBatch created the
\* job, no syncBatch invocation takes a page through syncThreadsBulk while
\* the owner's Label table has not been synced.
C33_LabelsSyncedBeforeRebuild ==
    [][\A i \in Inv :
          (/\ inv[i].kind = "syncBatch" /\ inv[i].pc = "bulk"
           /\ inv'[i].pc = "update")
          => MailboxLabels \subseteq db.label]_vars


\* C34: a job's processedItems never exceeds the number of distinct threads
\* the mailbox API listed for the job, of which the mailbox holds
\* mailbox.threads; also when syncBatch resumes a RUNNING job that syncMailbox
\* created or that an ended invocation left behind, and lists from the first
\* page again.
C34_ProcessedWithinListedThreads ==
    \A j \in DOMAIN syncJob : syncJob[j].processedItems <= mailbox.threads


\* The loop of handleSync is over.
LoopOver == ui.loop[1].pc = "idle" /\ ~ui.isSyncing

\* Every job is COMPLETED, or the loop stopped at its cap with the job RUNNING
\* at the cursor after maxAttempts pages.
SyncedOrCapped ==
    /\ syncJob # <<>>
    /\ \A j \in DOMAIN syncJob :
           \/ syncJob[j].status = "COMPLETED"
           \/ /\ syncJob[j].status = "RUNNING"
              /\ syncJob[j].nextPageToken = maxAttempts * SYNC_BATCH_SIZE
              /\ Slots > maxAttempts * SYNC_BATCH_SIZE

\* C35: for a finite mailbox and no job-level error, syncBatch called again
\* and again ends with completed = true and the job COMPLETED; and the loop of
\* handleSync always terminates, after at most maxAttempts syncBatch calls,
\* with isSyncing reset to false.
C35_SyncAndLoopTerminate ==
    /\ [](ui.loop[1].attempt < maxAttempts)
    /\ (ui.loop[1].pc # "idle") ~> (LoopOver /\ SyncedOrCapped)

\* The loop has stopped at its cap: maxAttempts pages are synced, one more is
\* left and the job is RUNNING.
C35_Witness ==
    /\ LoopOver
    /\ \E j \in DOMAIN syncJob :
           /\ syncJob[j].status = "RUNNING"
           /\ syncJob[j].processedItems = maxAttempts * SYNC_BATCH_SIZE


\* C36: an owner whose syncStatus syncMailbox set to SYNCING has syncStatus
\* COMPLETED or FAILED in the end, and whenever a syncMailbox invocation ends
\* (normal return, deadline return, thrown error) the owner is not SYNCING.
C36_SyncingEnds ==
    /\ (user.syncStatus = "SYNCING") ~> (user.syncStatus \in {"COMPLETED", "FAILED"})
    /\ [][(inv[1].kind = "syncMailbox" /\ inv[1].pc # "done" /\ inv'[1].pc = "done")
              => user'.syncStatus # "SYNCING"]_vars


\* Every upload of the batch that was due has settled: accepted, or rejected and
\* logged.
AllUploadsAttempted ==
    /\ \A k \in DOMAIN bulk.s3UploadTasks :
          bulk.s3UploadTasks[k] \in bulk.logged \cup bulk.uploaded
    /\ \A k \in DOMAIN bulk.attachmentsToProcess :
          LET item == bulk.attachmentsToProcess[k]
              messageId == MessageIdOf(item.gmailMessageId)
          IN  (item.attachment.hasData /\ messageId # Undefined)
                  => \/ AttachmentKey(item.attachment) \in bulk.logged \cup bulk.uploaded
                     \/ AttachmentRows(messageId, item.attachment.attachmentId) # {}

\* The job row the call of the Sidebar works on.
FanOutJob == IF inv[1].pc = "done" THEN inv[1].job ELSE inv[1].syncJobId

\* C37: a rejected blob upload (an HTML body, the bytes of an attachment) is
\* logged and does not fail the batch: the call does not throw, every upload of
\* the batch is still attempted, syncThreadsBulk returns the number of fetched
\* threads and the job's processedItems grows by it.
C37_UploadFailureDoesNotFailBatch ==
    /\ inv[1].outcome # "threw"
    /\ \A key \in bulk.logged : S3Rejects(bulk.s3, key)
    /\ bulk.phase = "returned" => AllUploadsAttempted
    /\ (bulk.phase = "returned" /\ inv[1].pc = "update")
          => inv[1].processedInBatch = Len(bulk.validThreads)
    /\ (bulk.phase = "returned" /\ inv[1].pc \in {"complete", "user", "done"})
          => syncJob[FanOutJob].processedItems = bulk.base + Len(bulk.validThreads)

C37_Witness ==
    /\ inv[1].pc = "done" /\ inv[1].outcome = "returned"
    /\ bulk.phase = "returned"
    /\ \E key \in bulk.logged : key[1] = "html"
    /\ \E key \in bulk.logged : key[1] = "attachment"
    /\ bulk.uploaded # {}
    /\ syncJob[FanOutJob].processedItems > 0

\* C38: the fan-out of one batch is bounded: at most SYNC_BATCH_SIZE thread
\* fetches, ATTACHMENT_BATCH_SIZE attachment syncs and S3_BATCH_SIZE blob uploads
\* are in flight, what is in flight belongs to the sub-batch launched last, and
\* a sub-batch is launched only when nothing is in flight.
C38_FanOutBounded ==
    /\ [](/\ bulk.hydration <= SYNC_BATCH_SIZE
          /\ Cardinality(bulk.syncing) <= ATTACHMENT_BATCH_SIZE
          /\ Cardinality(bulk.uploading) <= S3_BATCH_SIZE
          /\ \A k \in bulk.syncing : bulk.i - ATTACHMENT_BATCH_SIZE < k /\ k <= bulk.i
          /\ \A k \in bulk.uploading : bulk.i - S3_BATCH_SIZE < k /\ k <= bulk.i)
    /\ [][bulk'.i > bulk.i => (bulk.syncing = {} /\ bulk.uploading = {})]_vars

C38_Witness ==
    /\ Len(inv[1].threads.items) = SYNC_BATCH_SIZE
    /\ Len(bulk.attachmentsToProcess) > 2 * ATTACHMENT_BATCH_SIZE
    /\ bulk.uploaded # {}
    /\ Cardinality(bulk.uploading) = S3_BATCH_SIZE


\* The parts of the message, as paths from the payload.
AllPaths ==
    LET parts == bulk.message.payload.parts
    IN  {<<n>> : n \in DOMAIN parts}
        \cup UNION {{<<n, j>> : j \in DOMAIN parts[n].parts} : n \in DOMAIN parts}

PartAt(path) ==
    IF Len(path) = 1 THEN bulk.message.payload.parts[path[1]]
    ELSE bulk.message.payload.parts[path[1]].parts[path[2]]

\* The parts that do not lie below an attachment part.
ReachedPaths ==
    {path \in AllPaths :
        Len(path) = 2 => ~IsAttachmentPart(bulk.message.payload.parts[path[1]])}

\* The descriptors of result made from the part.
DescriptorsOf(result, part) ==
    {k \in DOMAIN result.attachments : result.attachments[k] = AttachmentDescriptor(part)}

\* The decoded data of the parts among paths that are text parts of the
\* mimeType, carry data and are not attachment parts.
ContentOf(paths, mimeType) ==
    {Base64Decode(PartAt(path).body.data) :
        path \in {q \in paths : /\ ~IsAttachmentPart(PartAt(q))
                                /\ PartAt(q).mimeType = mimeType
                                /\ PartAt(q).body.data # NoData}}

ContentTaken(content, found) ==
    IF found = {} THEN content = <<>>
    ELSE Len(content) = 1 /\ content[1] \in found

\* The result depends on the message alone, and html and text come from the
\* text parts the traversal reaches.
PureAndContentTaken ==
    /\ \A k \in DOMAIN bulk.results : bulk.results[k] = bulk.results[1]
    /\ \A k \in DOMAIN bulk.results :
          bulk.message.payload.hasParts =>
             /\ ContentTaken(bulk.results[k].html, ContentOf(ReachedPaths, "text/html"))
             /\ ContentTaken(bulk.results[k].text, ContentOf(ReachedPaths, "text/plain"))

=============================================================================
